---------------------------- MODULE Spec2Model ----------------------------
(***************************************************************************)
(* Model of the ENTU -> MUIS field-translation pipeline (mitselek/vabamu): *)
(* the object-code parser, the row orchestrator convert_row with the       *)
(* parsers it calls, and the column mapper orchestrator_to_muis_row.       *)
(*                                                                         *)
(* Python values are tagged records; a Python str is a sequence of         *)
(* one-character strings, so that strip, split, int() and the regular      *)
(* expressions are computed character by character.                        *)
(***************************************************************************)
EXTENDS Integers, Sequences, FiniteSets, TLC

VARIABLES
    pc,        \* position of the running call
    arg,       \* argument of a directly called parser
    ret,       \* value a directly called parser returned (Unset: none)
    exc,       \* exception raised by the running call ("none": no exception)
    entu_row,  \* the source record given to convert_row
    result,    \* convert_row's result dict, built phase by phase
    orchestrator_output,  \* the dict given to orchestrator_to_muis_row
    muis_row,  \* the dict orchestrator_to_muis_row returned
    next_record,        \* position of a loop over a record list (0: no loop)
    converted_records,  \* the records a loop has converted, in order
    error_count,        \* the records a loop has failed to convert
    heap                \* the lists kept by callers, by object identity

vars == <<pc, arg, ret, exc, entu_row, result, orchestrator_output, muis_row,
          next_record, converted_records, error_count, heap>>

-----------------------------------------------------------------------------
(* Bounds of the model.                                                    *)

\* Codes are generated from the digits 0..MaxDigit (and edits of them).
MaxDigit == 1

\* Records and maps hold at most MaxFields keys.
MaxFields == 2

\* Dimension strings hold at most MaxClauses ";"-separated clauses.
MaxClauses == 3

\* Names are joined from at most MaxWords words.
MaxWords == 3

\* Strings written character by character hold at most MaxChars characters.
MaxChars == 4

\* A name field holds at most MaxLines lines.
MaxLines == 3

\* A record list holds at most MaxRecords records.
MaxRecords == 3

\* A caller of the translation core makes at most MaxCalls conversions, on a
\* batch of at most MaxCalls different records.
MaxCalls == 2

-----------------------------------------------------------------------------
(* Python values.                                                          *)

PyNone == [t |-> "none"]
PyStr(s) == [t |-> "str", s |-> s]
PyInt(n) == [t |-> "int", n |-> n]
PyList(l) == [t |-> "list", l |-> l]
PyDict(d) == [t |-> "dict", d |-> d]
\* No value: a call that has not returned, or a dict with no entries yet.
Unset == [t |-> "unset"]
EmptyDict == [k \in {} |-> PyNone]

IsStr(v) == v.t = "str"

\* bool(v): None, "", 0 and [] are falsy.
Truthy(v) ==
    CASE v.t = "none" -> FALSE
      [] v.t = "str" -> v.s # <<>>
      [] v.t = "int" -> v.n # 0
      [] v.t = "list" -> v.l # <<>>
      [] v.t = "dict" -> DOMAIN v.d # {}
      [] v.t = "float" -> v.num # 0
      [] OTHER -> TRUE

\* dict.get(key, default)
Get(d, key, default) == IF key \in DOMAIN d THEN d[key] ELSE default

\* d[key] = value
Put(d, key, value) == [k \in DOMAIN d \cup {key} |-> IF k = key THEN value ELSE d[k]]

\* d.update(other)
Update(d, other) ==
    [k \in DOMAIN d \cup DOMAIN other |-> IF k \in DOMAIN other THEN other[k] ELSE d[k]]

\* Outcome of a call: a returned value or a raised exception.
Return(v) == [raised |-> "none", value |-> v]
Raise(e) == [raised |-> e, value |-> Unset]

-----------------------------------------------------------------------------
(* Characters and str methods.                                             *)

DigitChar == <<"0", "1", "2", "3", "4", "5", "6", "7", "8", "9">>
DigitChars == {DigitChar[i] : i \in 1..10}
Whitespace == {" ", "\t", "\n", "\r"}

\* The digit a digit character stands for.
DigitVal(c) == (CHOOSE i \in 1..10 : DigitChar[i] = c) - 1

\* str.isdigit(): non-empty and all digits.
isdigit(s) == s # <<>> /\ \A i \in 1..Len(s) : s[i] \in DigitChars

RECURSIVE lstrip(_)
lstrip(s) == IF s # <<>> /\ Head(s) \in Whitespace THEN lstrip(Tail(s)) ELSE s

RECURSIVE rstrip(_)
rstrip(s) ==
    IF s # <<>> /\ s[Len(s)] \in Whitespace THEN rstrip(SubSeq(s, 1, Len(s) - 1)) ELSE s

\* str.strip()
strip(s) == rstrip(lstrip(s))

\* int(s) of a digit string: leading zeros carry no value.
RECURSIVE int(_)
int(s) ==
    IF s = <<>> THEN 0
    ELSE 10 * int(SubSeq(s, 1, Len(s) - 1)) + DigitVal(s[Len(s)])

-----------------------------------------------------------------------------
(* scripts/parsers/number_parser.py                                        *)

SERIES_DIGITS == 6
SEQ_DIGITS == 3

\* The same pattern without its "$" anchor: characters may follow the code.
\* (Not the program's: ParseRejectsAllElse tells the two apart.)
re_match_code_unanchored(code) ==
    IF /\ Len(code) >= SERIES_DIGITS + 1 + SEQ_DIGITS
       /\ \A i \in 1..SERIES_DIGITS : code[i] \in DigitChars
       /\ code[SERIES_DIGITS + 1] = "/"
       /\ \A i \in (SERIES_DIGITS + 2)..(SERIES_DIGITS + 1 + SEQ_DIGITS) :
              code[i] \in DigitChars
    THEN <<SubSeq(code, 1, SERIES_DIGITS),
           SubSeq(code, SERIES_DIGITS + 2, SERIES_DIGITS + 1 + SEQ_DIGITS)>>
    ELSE <<>>

\* re.match(r"^(\d{6})/(\d{3})$", code): the two groups, or <<>> for no match.
\* (code is stripped, so "$" has no trailing newline to match before.)
re_match_code(code) ==
    IF /\ Len(code) = SERIES_DIGITS + 1 + SEQ_DIGITS
       /\ \A i \in 1..SERIES_DIGITS : code[i] \in DigitChars
       /\ code[SERIES_DIGITS + 1] = "/"
       /\ \A i \in (SERIES_DIGITS + 2)..Len(code) : code[i] \in DigitChars
    THEN <<SubSeq(code, 1, SERIES_DIGITS),
           SubSeq(code, SERIES_DIGITS + 2, SERIES_DIGITS + 1 + SEQ_DIGITS)>>
    ELSE <<>>

\* The dict with the two groups stored under each other's key.
\* (Not the program's: ParseReturnsHierarchy tells the two apart.)
parse_entu_code_dict_swapped(series_str, seq_str) ==
    [acr |-> PyStr(<<"V", "B", "M">>),
     trt |-> PyStr(<<"_">>),
     trs |-> PyInt(int(seq_str)),
     trj |-> PyInt(int(series_str)),
     trl |-> PyNone,
     kt |-> PyNone,
     ks |-> PyNone,
     kj |-> PyNone,
     kl |-> PyNone]

\* The dict built from the two matched groups.
parse_entu_code_dict(series_str, seq_str) ==
    [acr |-> PyStr(<<"V", "B", "M">>),
     trt |-> PyStr(<<"_">>),
     trs |-> PyInt(int(series_str)),
     trj |-> PyInt(int(seq_str)),
     trl |-> PyNone,
     kt |-> PyNone,
     ks |-> PyNone,
     kj |-> PyNone,
     kl |-> PyNone]

\* The input guard: "if not code or not isinstance(code, str)".
parse_entu_code_rejects(code) == ~Truthy(code) \/ ~IsStr(code)

parse_entu_code(code) ==
    IF parse_entu_code_rejects(code) THEN Raise("ValueError")
    ELSE LET match == re_match_code(strip(code.s))
         IN IF match = <<>> THEN Raise("ValueError")
            ELSE Return(parse_entu_code_dict(match[1], match[2]))

-----------------------------------------------------------------------------
(* scripts/parsers/dimension_parser.py                                     *)

PyFloat(num, den) == [t |-> "float", num |-> num, den |-> den]

\* The float num/den with trailing decimal zeros dropped: 1.50 = 1.5.
RECURSIVE NormFloat(_, _)
NormFloat(num, den) ==
    IF den > 1 /\ num % 10 = 0 THEN NormFloat(num \div 10, den \div 10)
    ELSE PyFloat(num, den)

RECURSIVE Pow10(_)
Pow10(n) == IF n = 0 THEN 1 ELSE 10 * Pow10(n - 1)

\* Index of the first c in s, 0 if there is none.
RECURSIVE IndexOf(_, _, _)
IndexOf(s, c, i) ==
    IF i > Len(s) THEN 0 ELSE IF s[i] = c THEN i ELSE IndexOf(s, c, i + 1)

\* float(tok) for tok matching \d+(\.\d+)?
float(tok) ==
    LET dot == IndexOf(tok, ".", 1)
    IN IF dot = 0 THEN PyFloat(int(tok), 1)
       ELSE LET frac == SubSeq(tok, dot + 1, Len(tok))
            IN NormFloat(int(SubSeq(tok, 1, dot - 1)) * Pow10(Len(frac)) + int(frac),
                         Pow10(Len(frac)))

\* Last index of the run of digits starting at i (i - 1 if s[i] is no digit).
RECURSIVE DigitsEnd(_, _)
DigitsEnd(s, i) ==
    IF i <= Len(s) /\ s[i] \in DigitChars THEN DigitsEnd(s, i + 1) ELSE i - 1

\* Last index of the greedy match of \d+(?:\.\d+)? at i, 0 for no match.
NumEnd(s, i) ==
    LET j == DigitsEnd(s, i)
    IN IF j < i THEN 0
       ELSE IF j + 1 <= Len(s) /\ s[j + 1] = "." /\ DigitsEnd(s, j + 2) >= j + 2
            THEN DigitsEnd(s, j + 2)
            ELSE j

\* Match of [ød][:,]?(\d+(?:\.\d+)?) starting at i: group 1, or <<>>.
DiameterAt(s, i) ==
    IF i <= Len(s) /\ s[i] \in {"ø", "d"}
    THEN LET k == IF i + 1 <= Len(s) /\ s[i + 1] \in {":", ","} THEN i + 2 ELSE i + 1
             e == NumEnd(s, k)
         IN IF e = 0 THEN <<>> ELSE SubSeq(s, k, e)
    ELSE <<>>

\* re.search of the diameter pattern: group 1 of the leftmost match, or <<>>.
RECURSIVE re_search_diameter(_, _)
re_search_diameter(s, i) ==
    IF i > Len(s) THEN <<>>
    ELSE IF DiameterAt(s, i) # <<>> THEN DiameterAt(s, i)
    ELSE re_search_diameter(s, i + 1)

\* Match of (\d+(?:\.\d+)?)x(\d+(?:\.\d+)?)(?:x(\d+(?:\.\d+)?))? starting at
\* i: <<group 1, group 2, group 3>> (group 3 = <<>> when absent), or <<>>.
HwAt(s, i) ==
    LET e1 == NumEnd(s, i)
    IN IF e1 = 0 \/ e1 + 1 > Len(s) \/ s[e1 + 1] # "x" THEN <<>>
       ELSE LET e2 == NumEnd(s, e1 + 2)
            IN IF e2 = 0 THEN <<>>
               ELSE LET e3 == IF e2 + 1 <= Len(s) /\ s[e2 + 1] = "x"
                              THEN NumEnd(s, e2 + 2) ELSE 0
                    IN <<SubSeq(s, i, e1), SubSeq(s, e1 + 2, e2),
                         IF e3 = 0 THEN <<>> ELSE SubSeq(s, e2 + 2, e3)>>

RECURSIVE re_search_hw(_, _)
re_search_hw(s, i) ==
    IF i > Len(s) THEN <<>>
    ELSE IF HwAt(s, i) # <<>> THEN HwAt(s, i)
    ELSE re_search_hw(s, i + 1)

\* s.split(sep) for a one-character separator.
RECURSIVE split(_, _)
split(s, sep) ==
    LET i == IndexOf(s, sep, 1)
    IN IF i = 0 THEN <<s>>
       ELSE <<SubSeq(s, 1, i - 1)>> \o split(SubSeq(s, i + 1, Len(s)), sep)

STR_labimoot == <<"l", "ä", "b", "i", "m", "õ", "õ", "t">>
STR_korgus == <<"k", "õ", "r", "g", "u", "s">>
STR_laius == <<"l", "a", "i", "u", "s">>
STR_sugavus == <<"s", "ü", "g", "a", "v", "u", "s">>
STR_mm == <<"m", "m">>

Measurement(parameeter, value) ==
    PyDict([parameeter |-> PyStr(parameeter), yhik |-> PyStr(STR_mm), vaartus |-> value])

\* The part's measurements with height, width, depth ahead of the diameter.
\* (Not the program's: MeasurementsInOrder tells the two apart.)
part_measurements_diameter_last(raw) ==
    LET part == strip(raw)
        diameter_match == re_search_diameter(part, 1)
        hw_match == re_search_hw(part, 1)
    IN IF part = <<>> THEN <<>>
       ELSE (IF hw_match # <<>>
             THEN <<Measurement(STR_korgus, float(hw_match[1])),
                    Measurement(STR_laius, float(hw_match[2]))>>
                  \o (IF hw_match[3] # <<>>
                      THEN <<Measurement(STR_sugavus, float(hw_match[3]))>>
                      ELSE <<>>)
             ELSE <<>>)
            \o (IF diameter_match # <<>>
                THEN <<Measurement(STR_labimoot, float(diameter_match))>>
                ELSE <<>>)

\* The measurements one ";"-separated part appends to results.
part_measurements(raw) ==
    LET part == strip(raw)
        diameter_match == re_search_diameter(part, 1)
        hw_match == re_search_hw(part, 1)
    IN IF part = <<>> THEN <<>>
       ELSE (IF diameter_match # <<>>
             THEN <<Measurement(STR_labimoot, float(diameter_match))>>
             ELSE <<>>)
            \o (IF hw_match # <<>>
                THEN <<Measurement(STR_korgus, float(hw_match[1])),
                       Measurement(STR_laius, float(hw_match[2]))>>
                     \o (IF hw_match[3] # <<>>
                         THEN <<Measurement(STR_sugavus, float(hw_match[3]))>>
                         ELSE <<>>)
                ELSE <<>>)

RECURSIVE parts_measurements(_)
parts_measurements(parts) ==
    IF parts = <<>> THEN <<>>
    ELSE part_measurements(Head(parts)) \o parts_measurements(Tail(parts))

MAX_MEASUREMENTS == 4

\* The whole list, nothing dropped.
\* (Not the program's: AtMostFourMeasurements tells the two apart.)
TakeAll(l, n) == l

\* results[:n]
Take(l, n) == SubSeq(l, 1, IF Len(l) < n THEN Len(l) ELSE n)

\* The guard with the isinstance test left out.
\* (Not the program's: DimensionsEmptyNeverRaise tells the two apart.)
parse_dimensions_guard_falsy(dim_str) == ~Truthy(dim_str)

\* The input guard: "if not dim_str or not isinstance(dim_str, str)".
parse_dimensions_guard(dim_str) == ~Truthy(dim_str) \/ ~IsStr(dim_str)

\* The list parse_dimensions returns when it raises nothing.
parse_dimensions(dim_str) ==
    IF parse_dimensions_guard(dim_str) THEN <<>>
    ELSE IF strip(dim_str.s) = <<>> THEN <<>>
    ELSE Take(parts_measurements(split(strip(dim_str.s), ";")), MAX_MEASUREMENTS)

\* The outcome of a call of parse_dimensions: past the guard, strip() needs
\* a str (AttributeError otherwise) and every float() a number: float(tok)
\* raises ValueError unless tok is digits with an optional fraction.
parse_dimensions_call(dim_str) ==
    LET float_raises(tok) == tok = <<>> \/ NumEnd(tok, 1) # Len(tok)
        part_raises(raw) ==
            LET part == strip(raw)
                diameter_match == re_search_diameter(part, 1)
                hw_match == re_search_hw(part, 1)
            IN /\ part # <<>>
               /\ \/ diameter_match # <<>> /\ float_raises(diameter_match)
                  \/ /\ hw_match # <<>>
                     /\ \/ float_raises(hw_match[1])
                        \/ float_raises(hw_match[2])
                        \/ hw_match[3] # <<>> /\ float_raises(hw_match[3])
    IN IF parse_dimensions_guard(dim_str) THEN Return(PyList(<<>>))
       ELSE IF ~IsStr(dim_str) THEN Raise("AttributeError")
       ELSE IF \E i \in 1..Len(split(strip(dim_str.s), ";")) :
                   part_raises(split(strip(dim_str.s), ";")[i])
       THEN Raise("ValueError")
       ELSE Return(PyList(parse_dimensions(dim_str)))

-----------------------------------------------------------------------------
(* scripts/parsers/date_parser.py                                          *)

\* The date part of fromisoformat: <<year, month, day>> of a valid
\* YYYY-MM-DD calendar date, <<>> otherwise.
fromisoformat_date(s) ==
    IF /\ Len(s) = 10
       /\ \A i \in {1, 2, 3, 4, 6, 7, 9, 10} : s[i] \in DigitChars
       /\ s[5] = "-" /\ s[8] = "-"
    THEN LET y == int(SubSeq(s, 1, 4))
             m == int(SubSeq(s, 6, 7))
             d == int(SubSeq(s, 9, 10))
             IsLeap == (y % 4 = 0 /\ y % 100 # 0) \/ y % 400 = 0
             DaysInMonth == IF m = 2 THEN (IF IsLeap THEN 29 ELSE 28)
                            ELSE IF m \in {4, 6, 9, 11} THEN 30 ELSE 31
         IN IF y >= 1 /\ m \in 1..12 /\ d >= 1 /\ d <= DaysInMonth
            THEN <<y, m, d>> ELSE <<>>
    ELSE <<>>

\* datetime.fromisoformat(s) for a str s: <<year, month, day>> of
\* YYYY-MM-DD, alone or followed by one separator character and a time;
\* <<>> where it raises ValueError.  (Strings in the basic or week formats,
\* or with fractions of a second or a UTC offset, are not generated.)
fromisoformat(s) ==
    LET \* The time part: HH, HH:MM or HH:MM:SS in range.
        fromisoformat_time(t) ==
            /\ Len(t) \in {2, 5, 8}
            /\ \A i \in 1..Len(t) :
                   IF i \in {3, 6} THEN t[i] = ":" ELSE t[i] \in DigitChars
            /\ int(SubSeq(t, 1, 2)) <= 23
            /\ Len(t) >= 5 => int(SubSeq(t, 4, 5)) <= 59
            /\ Len(t) = 8 => int(SubSeq(t, 7, 8)) <= 59
    IN IF Len(s) <= 10 THEN fromisoformat_date(s)
       ELSE IF Len(s) >= 12 /\ fromisoformat_time(SubSeq(s, 12, Len(s)))
       THEN fromisoformat_date(SubSeq(s, 1, 10))
       ELSE <<>>

\* The decimal digits of n >= 0.
RECURSIVE str_int(_)
str_int(n) ==
    IF n < 10 THEN <<DigitChar[n + 1]>>
    ELSE str_int(n \div 10) \o <<DigitChar[(n % 10) + 1]>>

\* "%02d"
Pad2(n) == IF n < 10 THEN <<"0">> \o str_int(n) ELSE str_int(n)

\* dt.strftime("%d.%m.%Y"): the C library's %Y pads a year below 1000 with
\* zeros (pad_year) or does not (glibc).
strftime(dt, pad_year) ==
    LET Pad4(n) ==
            IF n < 10 THEN <<"0", "0", "0">> \o str_int(n)
            ELSE IF n < 100 THEN <<"0", "0">> \o str_int(n)
            ELSE IF n < 1000 THEN <<"0">> \o str_int(n)
            ELSE str_int(n)
    IN Pad2(dt[3]) \o <<".">> \o Pad2(dt[2]) \o <<".">>
       \o (IF pad_year THEN Pad4(dt[1]) ELSE str_int(dt[1]))

\* Only ValueError is caught: fromisoformat of a non-str raises TypeError.
convert_date(date_str, pad_year) ==
    IF ~Truthy(date_str) THEN Return(PyNone)
    ELSE IF ~IsStr(date_str) THEN Raise("TypeError")
    ELSE LET dt == fromisoformat(date_str.s)
         IN IF dt = <<>> THEN Return(PyNone)
            ELSE Return(PyStr(strftime(dt, pad_year)))

-----------------------------------------------------------------------------
(* scripts/parsers/person_mapper.py                                        *)

\* c in s
Contains(s, c) == \E i \in 1..Len(s) : s[i] = c

\* s.replace(c, "")
RECURSIVE remove_char(_, _)
remove_char(s, c) ==
    IF s = <<>> THEN <<>>
    ELSE (IF Head(s) = c THEN <<>> ELSE <<Head(s)>>) \o remove_char(Tail(s), c)


\* A truthy non-str has no strip(): AttributeError.
map_person(person_id_or_name) ==
    IF ~Truthy(person_id_or_name) THEN Return(PyNone)
    ELSE IF ~IsStr(person_id_or_name) THEN Raise("AttributeError")
    ELSE LET name == strip(person_id_or_name.s)
         IN IF Contains(name, ",") /\ ~isdigit(remove_char(name, " "))
            THEN Return(PyStr(name))
            ELSE IF isdigit(name)
            THEN Return(PyStr(<<"[", "P", "e", "r", "s", "o", "n", " ", "I", "D", ":", " ">>
                               \o name \o <<"]">>))
            ELSE Return(PyStr(name))

-----------------------------------------------------------------------------
(* scripts/parsers/vocab_mapper.py                                         *)

\* [p for p in parts if p]
RECURSIVE non_empty(_)
non_empty(parts) ==
    IF parts = <<>> THEN <<>>
    ELSE (IF Head(parts) = <<>> THEN <<>> ELSE <<Head(parts)>>) \o non_empty(Tail(parts))

map_material(material_path) ==
    IF ~Truthy(material_path) THEN Return(PyNone)
    ELSE IF ~IsStr(material_path) THEN Raise("AttributeError")
    ELSE LET path == strip(material_path.s)
         IN IF Contains(path, "/")
            THEN LET parts == non_empty(split(path, "/"))
                 IN IF parts # <<>> THEN Return(PyStr(parts[Len(parts)]))
                    ELSE Return(PyNone)
            ELSE IF path # <<>> THEN Return(PyStr(path)) ELSE Return(PyNone)

map_technique(technique_path) == map_material(technique_path)

map_color(color_path) == map_material(color_path)

-----------------------------------------------------------------------------
(* scripts/extract_person_names.py                                         *)

\* text.replace("\r\n", "\n")
RECURSIVE replace_crlf(_)
replace_crlf(text) ==
    IF text = <<>> THEN <<>>
    ELSE IF Len(text) >= 2 /\ text[1] = "\r" /\ text[2] = "\n"
    THEN <<"\n">> \o replace_crlf(SubSeq(text, 3, Len(text)))
    ELSE <<Head(text)>> \o replace_crlf(Tail(text))

\* [line for line in lines if line.strip()]: the lines are returned as cut.
RECURSIVE non_blank_lines_unstripped(_)
non_blank_lines_unstripped(lines) ==
    IF lines = <<>> THEN <<>>
    ELSE (IF strip(Head(lines)) # <<>> THEN <<PyStr(Head(lines))>> ELSE <<>>)
         \o non_blank_lines_unstripped(Tail(lines))

\* [line.strip() for line in lines if line.strip()]
RECURSIVE non_blank_lines(_)
non_blank_lines(lines) ==
    IF lines = <<>> THEN <<>>
    ELSE (IF strip(Head(lines)) # <<>> THEN <<PyStr(strip(Head(lines)))>> ELSE <<>>)
         \o non_blank_lines(Tail(lines))

parse_multiline_names(text) ==
    LET lines == split(replace_crlf(text.s), "\n")
    IN PyList(non_blank_lines(lines))

\* str.lower() over the letters names are written with.
lower(s) ==
    LET UpperChars == <<"A", "B", "C", "D", "E", "F", "G", "H", "I", "J", "K", "L", "M", "N", "O", "P", "Q", "R", "S", "T", "U", "V", "W", "X", "Y", "Z", "Ü", "Õ", "Ä", "Ö">>
        LowerChars == <<"a", "b", "c", "d", "e", "f", "g", "h", "i", "j", "k", "l", "m", "n", "o", "p", "q", "r", "s", "t", "u", "v", "w", "x", "y", "z", "ü", "õ", "ä", "ö">>
    IN [i \in 1..Len(s) |->
           IF \E j \in 1..Len(UpperChars) : UpperChars[j] = s[i]
           THEN LowerChars[CHOOSE j \in 1..Len(UpperChars) : UpperChars[j] = s[i]]
           ELSE s[i]]

\* sub in s
ContainsSub(s, sub) ==
    \E i \in 1..(Len(s) - Len(sub) + 1) : SubSeq(s, i, i + Len(sub) - 1) = sub

\* s.endswith(sub)
endswith(s, sub) ==
    Len(s) >= Len(sub) /\ SubSeq(s, Len(s) - Len(sub) + 1, Len(s)) = sub

org_keywords ==
    <<<<"m", "u", "u", "s", "e", "u", "m">>,
      <<"m", "u", "s", "e", "u", "m">>,
      <<"i", "n", "s", "t", "i", "t", "u", "u", "t">>,
      <<"i", "n", "s", "t", "i", "t", "u", "t", "e">>,
      <<" ", "m", "t", "ü">>,
      <<"f", "o", "n", "d">>,
      <<"a", "r", "h", "i", "i", "v">>,
      <<"a", "r", "c", "h", "i", "v", "e">>,
      <<"ü", "l", "i", "k", "o", "o", "l">>,
      <<"u", "n", "i", "v", "e", "r", "s", "i", "t", "y">>>>

org_suffixes == <<<<" ", "o", "ü">>, <<" ", "a", "s">>, <<" ", "s", "a">>>>

STR_person == <<"p", "e", "r", "s", "o", "n">>
STR_organization == <<"o", "r", "g", "a", "n", "i", "z", "a", "t", "i", "o", "n">>

\* classify_entity with the comma test after the organization tests.
\* (Not the program's: ClassifiedByFirstMatch tells the two apart.)
classify_entity_comma_last(name) ==
    LET name_lower == lower(name)
    IN IF \E k \in 1..Len(org_keywords) : ContainsSub(name_lower, org_keywords[k])
       THEN PyStr(STR_organization)
       ELSE IF \E k \in 1..Len(org_suffixes) :
                   \/ endswith(name_lower, org_suffixes[k])
                   \/ ContainsSub(name_lower, org_suffixes[k] \o <<" ">>)
                   \/ ContainsSub(name_lower, org_suffixes[k] \o <<",">>)
       THEN PyStr(STR_organization)
       ELSE PyStr(STR_person)

classify_entity(name) ==
    IF Contains(name, ",") THEN PyStr(STR_person)
    ELSE LET name_lower == lower(name)
         IN IF \E k \in 1..Len(org_keywords) : ContainsSub(name_lower, org_keywords[k])
            THEN PyStr(STR_organization)
            ELSE IF \E k \in 1..Len(org_suffixes) :
                        \/ endswith(name_lower, org_suffixes[k])
                        \/ ContainsSub(name_lower, org_suffixes[k] \o <<" ">>)
                        \/ ContainsSub(name_lower, org_suffixes[k] \o <<",">>)
            THEN PyStr(STR_organization)
            ELSE PyStr(STR_person)

-----------------------------------------------------------------------------
(* scripts/models.py: MuisMuseaal.  Of its fields the model keeps the      *)
(* number structure, nimetus and every field a model validator reads; self *)
(* is the function from field names to values.  The validators are         *)
(* pydantic "after" validators: they run in the order they are defined in, *)
(* on the instance, and a ValueError they raise fails the construction.    *)

\* The ValidationError pydantic raises for a validator's ValueError.
ValidationError == Raise("ValidationError")

\* Config.validate_assignment: an assignment inside a validator validates
\* the instance anew, from the first validator on.
RECURSIVE model_validators(_, _)

\* setattr that assigns nothing.
\* (Not the program's: CountryForcedToEesti tells the two apart.)
setattr_dropped(self, name, value) == Return(self)

\* self.name = value
setattr(self, name, value) == model_validators(Put(self, name, value), 1)

validate_measurement_dependencies(self) ==
    IF \E i \in 1..4 :
           LET n == <<"1", "2", "3", "4">>[i]
               parameeter == self["parameeter_" \o n]
               vaartus == self["vaartus_" \o n]
           IN \/ Truthy(vaartus) /\ ~Truthy(parameeter)
              \/ Truthy(parameeter) /\ ~Truthy(vaartus)
    THEN ValidationError
    ELSE Return(self)

validate_material_dependencies(self) ==
    IF \E i \in 1..3 :
           LET n == <<"1", "2", "3">>[i]
               materjal == self["materjal_" \o n]
               kommentaar == self["materjali_" \o n \o "_kommentaar"]
           IN Truthy(kommentaar) /\ ~Truthy(materjal)
    THEN ValidationError
    ELSE Return(self)

validate_technique_dependencies(self) ==
    IF \E i \in 1..3 :
           LET n == <<"1", "2", "3">>[i]
               tehnika == self["tehnika_" \o n]
               kommentaar == self["tehnika_" \o n \o "_kommentaar"]
           IN Truthy(kommentaar) /\ ~Truthy(tehnika)
    THEN ValidationError
    ELSE Return(self)

validate_event_1_dependencies(self) ==
    IF Truthy(self["osaleja_1"]) /\ ~Truthy(self["osaleja_roll_1"])
    THEN ValidationError
    ELSE IF /\ Truthy(self["toimumiskoha_tapsustus_kohanimi_1"])
            /\ ~Truthy(self["toimumiskoha_tapsustus_selgitus_1"])
    THEN ValidationError
    ELSE IF Truthy(self["dateeringu_lopp_1"]) /\ ~Truthy(self["dateering_algus_1"])
    THEN ValidationError
    ELSE IF /\ Truthy(self["eesti_admin_yksus_1"]) \/ Truthy(self["kihelkond_1"])
            /\ self["riik_1"] # PyStr(<<"E", "e", "s", "t", "i">>)
    THEN setattr(self, "riik_1", PyStr(<<"E", "e", "s", "t", "i">>))
    ELSE Return(self)

\* validate_event_2_dependencies without the participant rule.
\* (Not the program's: EventPairsRequired tells the two apart.)
validate_event_2_dependencies_any_osaleja(self) ==
    IF /\ Truthy(self["toimumiskoha_tapsustus_kohanimi_2"])
       /\ ~Truthy(self["toimumiskoha_tapsustus_selgitus_2"])
    THEN ValidationError
    ELSE IF Truthy(self["dateeringu_lopp_2"]) /\ ~Truthy(self["dateering_algus_2"])
    THEN ValidationError
    ELSE IF /\ Truthy(self["eesti_admin_yksus_2"]) \/ Truthy(self["kihelkond_2"])
            /\ self["riik_2"] # PyStr(<<"E", "e", "s", "t", "i">>)
    THEN setattr(self, "riik_2", PyStr(<<"E", "e", "s", "t", "i">>))
    ELSE Return(self)

validate_event_2_dependencies(self) ==
    IF Truthy(self["osaleja_2"]) /\ ~Truthy(self["osaleja_roll_2"])
    THEN ValidationError
    ELSE IF /\ Truthy(self["toimumiskoha_tapsustus_kohanimi_2"])
            /\ ~Truthy(self["toimumiskoha_tapsustus_selgitus_2"])
    THEN ValidationError
    ELSE IF Truthy(self["dateeringu_lopp_2"]) /\ ~Truthy(self["dateering_algus_2"])
    THEN ValidationError
    ELSE IF /\ Truthy(self["eesti_admin_yksus_2"]) \/ Truthy(self["kihelkond_2"])
            /\ self["riik_2"] # PyStr(<<"E", "e", "s", "t", "i">>)
    THEN setattr(self, "riik_2", PyStr(<<"E", "e", "s", "t", "i">>))
    ELSE Return(self)

validate_description_dependencies(self) ==
    IF Truthy(self["teksti_tyyp_1"]) /\ ~Truthy(self["tekst_1"]) THEN ValidationError
    ELSE IF Truthy(self["tekst_1"]) /\ ~Truthy(self["teksti_tyyp_1"]) THEN ValidationError
    ELSE IF Truthy(self["teksti_tyyp_2"]) /\ ~Truthy(self["tekst_2"]) THEN ValidationError
    ELSE IF Truthy(self["tekst_2"]) /\ ~Truthy(self["teksti_tyyp_2"]) THEN ValidationError
    ELSE Return(self)

validate_alternative_name_dependencies(self) ==
    IF Truthy(self["nimetuse_tyyp"]) /\ ~Truthy(self["alt_nimetus"]) THEN ValidationError
    ELSE IF Truthy(self["alt_nimetus"]) /\ ~Truthy(self["nimetuse_tyyp"]) THEN ValidationError
    ELSE Return(self)

\* validate_alternative_number_dependencies in one direction only.
\* (Not the program's: TextPairsBothOrNeither tells the two apart.)
validate_alternative_number_dependencies_one_way(self) ==
    IF Truthy(self["numbri_tyyp"]) /\ ~Truthy(self["alt_number"]) THEN ValidationError
    ELSE Return(self)

validate_alternative_number_dependencies(self) ==
    IF Truthy(self["numbri_tyyp"]) /\ ~Truthy(self["alt_number"]) THEN ValidationError
    ELSE IF Truthy(self["alt_number"]) /\ ~Truthy(self["numbri_tyyp"]) THEN ValidationError
    ELSE Return(self)

validate_condition_damage_dependency(self) ==
    IF /\ self["seisund"] \in {PyStr(<<"h", "a", "l", "b">>),
                               PyStr(<<"v", "ä", "g", "a", " ", "h", "a", "l", "b">>)}
       /\ ~Truthy(self["kahjustused"])
    THEN ValidationError
    ELSE Return(self)

\* validate_reference_dependency with the pair's members exchanged.
\* (Not the program's: OneWayRulesOneWay tells the two apart.)
validate_reference_dependency_reversed(self) ==
    IF Truthy(self["viite_tyyp"]) /\ ~Truthy(self["viite_vaartus"]) THEN ValidationError
    ELSE Return(self)

validate_reference_dependency(self) ==
    IF Truthy(self["viite_vaartus"]) /\ ~Truthy(self["viite_tyyp"]) THEN ValidationError
    ELSE Return(self)

validate_archaeology_dependency(self) ==
    IF Truthy(self["leiu_liik"]) /\ ~Truthy(self["leiukontekst"]) THEN ValidationError
    ELSE Return(self)

\* The validators from the k-th on, each on what the one before returned.
model_validators(self, k) ==
    IF k > 11 THEN Return(self)
    ELSE LET outcome ==
                 CASE k = 1 -> validate_measurement_dependencies(self)
                   [] k = 2 -> validate_material_dependencies(self)
                   [] k = 3 -> validate_technique_dependencies(self)
                   [] k = 4 -> validate_event_1_dependencies(self)
                   [] k = 5 -> validate_event_2_dependencies(self)
                   [] k = 6 -> validate_description_dependencies(self)
                   [] k = 7 -> validate_alternative_name_dependencies(self)
                   [] k = 8 -> validate_alternative_number_dependencies(self)
                   [] k = 9 -> validate_condition_damage_dependency(self)
                   [] k = 10 -> validate_reference_dependency(self)
                   [] k = 11 -> validate_archaeology_dependency(self)
         IN IF outcome.raised # "none" THEN outcome
            ELSE model_validators(outcome.value, k + 1)

\* The Field(...) constraints of the number structure and of nimetus.
field_constraints(self) ==
    LET Capitals == {"A", "B", "C", "D", "E", "F", "G", "H", "I", "J", "K", "L", "M",
                     "N", "O", "P", "Q", "R", "S", "T", "U", "V", "W", "X", "Y", "Z"}
        ge_1(v) == v.t = "int" /\ v.n >= 1
        optional(v, ok) == v = PyNone \/ ok
    IN /\ IsStr(self["acr"])
       /\ Len(self["acr"].s) \in 2..4
       /\ \A i \in 1..Len(self["acr"].s) : self["acr"].s[i] \in Capitals
       /\ self["trt"] = PyStr(<<"_">>)
       /\ ge_1(self["trs"])
       /\ optional(self["trj"], ge_1(self["trj"]))
       /\ optional(self["trl"], IsStr(self["trl"]))
       /\ optional(self["kt"], IsStr(self["kt"]))
       /\ optional(self["ks"], ge_1(self["ks"]))
       /\ optional(self["kj"], ge_1(self["kj"]))
       /\ optional(self["kl"], IsStr(self["kl"]))
       /\ IsStr(self["nimetus"])
       /\ Len(self["nimetus"].s) >= 1

\* MuisMuseaal(**kwargs): the required fields, the defaults (None but for
\* trt), the field constraints, then the model validators.
MuisMuseaal(kwargs) ==
    LET optional ==
            {"trj", "trl", "kt", "ks", "kj", "kl",
             "parameeter_1", "yhik_1", "vaartus_1", "parameeter_2", "yhik_2", "vaartus_2",
             "parameeter_3", "yhik_3", "vaartus_3", "parameeter_4", "yhik_4", "vaartus_4",
             "materjal_1", "materjali_1_kommentaar", "materjal_2", "materjali_2_kommentaar",
             "materjal_3", "materjali_3_kommentaar",
             "tehnika_1", "tehnika_1_kommentaar", "tehnika_2", "tehnika_2_kommentaar",
             "tehnika_3", "tehnika_3_kommentaar",
             "viite_tyyp", "viite_vaartus", "leiukontekst", "leiu_liik", "seisund", "kahjustused",
             "toimumiskoha_tapsustus_kohanimi_1", "toimumiskoha_tapsustus_selgitus_1",
             "dateering_algus_1", "dateeringu_lopp_1", "riik_1", "eesti_admin_yksus_1",
             "osaleja_1", "osaleja_roll_1", "kihelkond_1",
             "toimumiskoha_tapsustus_kohanimi_2", "toimumiskoha_tapsustus_selgitus_2",
             "dateering_algus_2", "dateeringu_lopp_2", "riik_2", "eesti_admin_yksus_2",
             "osaleja_2", "osaleja_roll_2", "kihelkond_2",
             "teksti_tyyp_1", "tekst_1", "teksti_tyyp_2", "tekst_2",
             "nimetuse_tyyp", "alt_nimetus", "numbri_tyyp", "alt_number"}
        defaults == [f \in optional |-> PyNone] @@ ("trt" :> PyStr(<<"_">>))
        self == Update(defaults, kwargs)
    IN IF ~({"acr", "trs", "nimetus"} \subseteq DOMAIN kwargs) THEN ValidationError
       ELSE IF ~field_constraints(self) THEN ValidationError
       ELSE LET outcome == model_validators(self, 1)
            IN IF outcome.raised # "none" THEN outcome
               ELSE Return(PyDict(outcome.value))

-----------------------------------------------------------------------------
(* scripts/muis_writer.py                                                  *)

MUIS_COLUMN_NAMES ==
    <<"museaali_ID", "Importimise staatus", "Kommentaar", "Acr", "Trt",
      "Trs", "Trj", "Trl", "Kt", "Ks", "Kj", "Kl", "Nimetus", "Püsiasukoht",
      "Tulmelegend", "Originaal ?", "Vastuvõtu nr", "Esmane üldinfo",
      "Koguse registreerimise aeg", "Üleandja",
      "Muuseumile omandamise viis", "Parameeter 1", "Ühik 1", "Väärtus 1",
      "Parameeter 2", "Ühik 2", "Väärtus 2", "Parameeter 3", "Ühik 3",
      "Väärtus 3", "Parameeter 4", "Ühik 4", "Väärtus 4", "Materjal 1",
      "Materjali 1 kommentaar", "Materjal 2", "Materjali 2 kommentaar",
      "Materjal 3", "Materjali 3 kommentaar", "Värvus", "Tehnika 1",
      "Tehnika 1 kommentaar", "Tehnika 2", "Tehnika 2 kommentaar",
      "Tehnika 3", "Tehnika 3 kommentaar", "Olemus 1", "Olemus 2",
      "Viite tyyp", "Viite väärtus", "Leiukontekst", "Leiu liik",
      "Pealkirja keel", "Ainese keel", "Seisund", "Kahjustused",
      "Sündmuse liik 1", "Toimumiskoha tapsustus kohanimi 1",
      "Toimumiskoha tapsustus selgitus 1", "Dateering algus 1", "On eKr 1",
      "Dateeringu lopp 1", "Riik 1", "Eesti admin yksus 1", "Osaleja 1",
      "Osaleja roll 1", "Kihelkond 1", "Sündmuse liik 2",
      "Toimumiskoha tapsustus kohanimi 2",
      "Toimumiskoha tapsustus selgitus 2", "Dateering algus 2", "On eKr 2",
      "Dateeringu lopp 2", "Riik 2", "Eesti admin yksus 2", "Osaleja 2",
      "Osaleja roll 2", "Kihelkond 2", "Avalik",
      "Avalikusta praegused andmed", "Teksti tyyp 1", "Tekst 1",
      "Teksti tyyp 2", "Tekst 2", "Nimetuse tyyp", "Alt nimetus",
      "Numbri tyyp", "Alt number">>

\* The dict a sequence of assignments muis_row[key] = value leaves: under
\* each key, the value of the last assignment to it (f @@ g keeps f's value
\* where both are defined).
RECURSIVE DictOf(_)
DictOf(assignments) ==
    IF assignments = <<>> THEN EmptyDict
    ELSE IF Len(assignments) = 1 THEN assignments[1][1] :> assignments[1][2]
    ELSE LET half == Len(assignments) \div 2
         IN DictOf(SubSeq(assignments, half + 1, Len(assignments)))
            @@ DictOf(SubSeq(assignments, 1, half))

\* The assignments before the measurement loop (system columns, number
\* structure, basic info, acquisition).
muis_row_head(orchestrator_output_) ==
    <<<<"museaali_ID", PyNone>>,
      <<"Importimise staatus", PyNone>>,
      <<"Kommentaar", PyNone>>,
      <<"Acr", Get(orchestrator_output_, "acr", PyNone)>>,
      <<"Trt", Get(orchestrator_output_, "trt", PyNone)>>,
      <<"Trs", Get(orchestrator_output_, "trs", PyNone)>>,
      <<"Trj", Get(orchestrator_output_, "trj", PyNone)>>,
      <<"Trl", Get(orchestrator_output_, "trl", PyNone)>>,
      <<"Kt", Get(orchestrator_output_, "kt", PyNone)>>,
      <<"Ks", Get(orchestrator_output_, "ks", PyNone)>>,
      <<"Kj", Get(orchestrator_output_, "kj", PyNone)>>,
      <<"Kl", Get(orchestrator_output_, "kl", PyNone)>>,
      <<"Nimetus", Get(orchestrator_output_, "name", PyNone)>>,
      <<"Püsiasukoht", PyNone>>,
      <<"Tulmelegend", Get(orchestrator_output_, "description", PyNone)>>,
      <<"Originaal ?", PyStr(<<>>)>>,
      <<"Vastuvõtu nr", PyNone>>,
      <<"Esmane üldinfo", Get(orchestrator_output_, "description", PyNone)>>,
      <<"Koguse registreerimise aeg", PyNone>>,
      <<"Üleandja", Get(orchestrator_output_, "donator", PyNone)>>,
      <<"Muuseumile omandamise viis", PyNone>>>>

\* f"Parameeter {i}", f"Ühik {i}", f"Väärtus {i}"
ParameeterKey == <<"Parameeter 1", "Parameeter 2", "Parameeter 3", "Parameeter 4">>
YhikKey == <<"Ühik 1", "Ühik 2", "Ühik 3", "Ühik 4">>
VaartusKey == <<"Väärtus 1", "Väärtus 2", "Väärtus 3", "Väärtus 4">>

MEASUREMENT_SLOTS == 4

\* The three assignments of slot i, every filled slot read from the first
\* measurement.  (Not the program's: MappedRowIsComplete tells the two apart.)
measurement_slot_first(l, i) ==
    IF i - 1 < Len(l)
    THEN <<<<ParameeterKey[i], Get(l[1].d, "parameeter", PyNone)>>,
           <<YhikKey[i], Get(l[1].d, "yhik", PyNone)>>,
           <<VaartusKey[i], Get(l[1].d, "vaartus", PyNone)>>>>
    ELSE <<<<ParameeterKey[i], PyNone>>, <<YhikKey[i], PyNone>>,
           <<VaartusKey[i], PyNone>>>>

\* The three assignments of slot i from the list l.
measurement_slot(l, i) ==
    IF i - 1 < Len(l)
    THEN <<<<ParameeterKey[i], Get(l[i].d, "parameeter", PyNone)>>,
           <<YhikKey[i], Get(l[i].d, "yhik", PyNone)>>,
           <<VaartusKey[i], Get(l[i].d, "vaartus", PyNone)>>>>
    ELSE <<<<ParameeterKey[i], PyNone>>, <<YhikKey[i], PyNone>>,
           <<VaartusKey[i], PyNone>>>>

RECURSIVE measurement_slots(_, _)
measurement_slots(l, i) ==
    IF i > MEASUREMENT_SLOTS THEN <<>>
    ELSE measurement_slot(l, i) \o measurement_slots(l, i + 1)

\* The loop "for i in range(1, 5)" over measurements: len() of None or of a
\* number raises TypeError; an item of a str, or a list item that is no
\* dict, has no get() (AttributeError); a non-empty dict has no key 0
\* (KeyError).
muis_row_measurements(measurements) ==
    CASE measurements.t \in {"none", "int", "float"} -> Raise("TypeError")
      [] measurements.t = "str" ->
            IF measurements.s = <<>> THEN Return(measurement_slots(<<>>, 1))
            ELSE Raise("AttributeError")
      [] measurements.t = "dict" ->
            IF DOMAIN measurements.d = {} THEN Return(measurement_slots(<<>>, 1))
            ELSE Raise("KeyError")
      [] OTHER ->
            IF \E i \in 1..MEASUREMENT_SLOTS :
                   i <= Len(measurements.l) /\ measurements.l[i].t # "dict"
            THEN Raise("AttributeError")
            ELSE Return(measurement_slots(measurements.l, 1))

\* The assignments after the measurement loop (materials to alternative
\* numbers).
muis_row_tail(orchestrator_output_) ==
    <<<<"Materjal 1", IF Truthy(Get(orchestrator_output_, "material", PyNone))
          THEN Get(orchestrator_output_, "material", PyNone) ELSE PyNone>>,
      <<"Materjali 1 kommentaar", PyNone>>,
      <<"Materjal 2", PyNone>>,
      <<"Materjali 2 kommentaar", PyNone>>,
      <<"Materjal 3", PyNone>>,
      <<"Materjali 3 kommentaar", PyNone>>,
      <<"Värvus", Get(orchestrator_output_, "color", PyNone)>>,
      <<"Tehnika 1", IF Truthy(Get(orchestrator_output_, "technique", PyNone))
          THEN Get(orchestrator_output_, "technique", PyNone) ELSE PyNone>>,
      <<"Tehnika 1 kommentaar", PyNone>>,
      <<"Tehnika 2", PyNone>>,
      <<"Tehnika 2 kommentaar", PyNone>>,
      <<"Tehnika 3", PyNone>>,
      <<"Tehnika 3 kommentaar", PyNone>>,
      <<"Olemus 1", PyNone>>,
      <<"Olemus 2", PyNone>>,
      <<"Viite tyyp", PyNone>>,
      <<"Viite väärtus", PyNone>>,
      <<"Leiukontekst", PyNone>>,
      <<"Leiu liik", PyNone>>,
      <<"Pealkirja keel", PyNone>>,
      <<"Ainese keel", PyNone>>,
      <<"Seisund", PyNone>>,
      <<"Kahjustused", PyNone>>,
      <<"Sündmuse liik 1", PyNone>>,
      <<"Toimumiskoha tapsustus kohanimi 1", PyNone>>,
      <<"Toimumiskoha tapsustus selgitus 1", PyNone>>,
      <<"Dateering algus 1", PyNone>>,
      <<"On eKr 1", PyStr(<<>>)>>,
      <<"Dateeringu lopp 1", PyNone>>,
      <<"Riik 1", PyNone>>,
      <<"Eesti admin yksus 1", PyNone>>,
      <<"Osaleja 1", PyNone>>,
      <<"Osaleja roll 1", PyNone>>,
      <<"Kihelkond 1", PyNone>>,
      <<"Sündmuse liik 2", PyNone>>,
      <<"Toimumiskoha tapsustus kohanimi 2", PyNone>>,
      <<"Toimumiskoha tapsustus selgitus 2", PyNone>>,
      <<"Dateering algus 2", PyNone>>,
      <<"On eKr 2", PyStr(<<>>)>>,
      <<"Dateeringu lopp 2", PyNone>>,
      <<"Riik 2", PyNone>>,
      <<"Eesti admin yksus 2", PyNone>>,
      <<"Osaleja 2", PyNone>>,
      <<"Osaleja roll 2", PyNone>>,
      <<"Kihelkond 2", PyNone>>,
      <<"Avalik", PyStr(<<>>)>>,
      <<"Avalikusta praegused andmed", PyStr(<<>>)>>,
      <<"Teksti tyyp 1", PyNone>>,
      <<"Tekst 1", Get(orchestrator_output_, "description", PyNone)>>,
      <<"Teksti tyyp 2", PyNone>>,
      <<"Tekst 2", PyNone>>,
      <<"Nimetuse tyyp", PyNone>>,
      <<"Alt nimetus", PyNone>>,
      <<"Numbri tyyp", PyNone>>,
      <<"Alt number", PyNone>>>>

orchestrator_to_muis_row(orchestrator_output_) ==
    LET slots == muis_row_measurements(
                     Get(orchestrator_output_, "measurements", PyList(<<>>)))
    IN IF slots.raised # "none" THEN Raise(slots.raised)
       ELSE Return(DictOf(muis_row_head(orchestrator_output_)
                          \o slots.value
                          \o muis_row_tail(orchestrator_output_)))

-----------------------------------------------------------------------------
(* scripts/convert_row.py                                                  *)

HierarchyKeys == {"acr", "trt", "trs", "trj", "trl", "kt", "ks", "kj", "kl"}

\* The nine assignments result[key] = None.
hierarchy_none == [k \in HierarchyKeys |-> PyNone]

\* Phase 1 without its try/except: the parser's exception ends the call.
\* (Not the program's: FallbackOnUnparsedCode tells the two apart.)
phase1_number_uncaught(entu_row_, result_) ==
    LET code == Get(entu_row_, "code", PyStr(<<>>))
    IN IF Truthy(code)
       THEN LET number_parsed == parse_entu_code(code)
            IN IF number_parsed.raised = "none"
               THEN Return(Update(result_, number_parsed.value))
               ELSE Raise(number_parsed.raised)
       ELSE Return(Update(result_, hierarchy_none))

\* Phase 1: the code is parsed when truthy; ValueError and KeyError are
\* caught and leave the nine fields None.
phase1_number(entu_row_, result_) ==
    LET code == Get(entu_row_, "code", PyStr(<<>>))
    IN IF Truthy(code)
       THEN LET number_parsed == parse_entu_code(code)
            IN IF number_parsed.raised = "none"
               THEN Return(Update(result_, number_parsed.value))
               ELSE IF number_parsed.raised \in {"ValueError", "KeyError"}
               THEN Return(Update(result_, hierarchy_none))
               ELSE Raise(number_parsed.raised)
       ELSE Return(Update(result_, hierarchy_none))

\* Phase 2: parse_dimensions returns a list and never raises.
phase2_dimensions(entu_row_, result_) ==
    Put(result_, "measurements",
        PyList(parse_dimensions(Get(entu_row_, "dimensions", PyStr(<<>>)))))

\* The outcome of "result[key] = f(entu_row.get(field, ''))" after `before`:
\* an exception raised earlier or by f leaves the later assignments undone.
\* `mapped` is f's outcome.
Assign(before, key, mapped) ==
    IF before.raised # "none" THEN before
    ELSE IF mapped.raised # "none"
    THEN [raised |-> mapped.raised, value |-> before.value]
    ELSE Return(Put(before.value, key, mapped.value))

\* One list object kept by the module and refilled at each call.
\* (Not the program's: OutputsAreIndependent tells the two apart.)
shared_list(heap_) == 1

\* The identity of the list parse_dimensions returned: "[]" and
\* "results[:4]" build a new object at each call.
new_list(heap_) == Len(heap_) + 1

\* Phase 3: an exception of convert_date is not caught.
phase3_date(entu_row_, result_, pad_year) ==
    Assign(Return(result_), "date",
           convert_date(Get(entu_row_, "date", PyStr(<<>>)), pad_year))

\* Phase 4: the two assignments in order; an exception of map_person is
\* not caught.
phase4_person(entu_row_, result_) ==
    LET donator == map_person(Get(entu_row_, "donator", PyStr(<<>>)))
        autor == map_person(Get(entu_row_, "autor", PyStr(<<>>)))
    IN Assign(Assign(Return(result_), "donator", donator), "autor", autor)

\* Phase 5
phase5_vocab(entu_row_, result_) ==
    LET material == map_material(Get(entu_row_, "materials", PyStr(<<>>)))
        technique == map_technique(Get(entu_row_, "techniques", PyStr(<<>>)))
        color == map_color(Get(entu_row_, "colors", PyStr(<<>>)))
    IN Assign(Assign(Assign(Return(result_), "material", material),
                     "technique", technique), "color", color)

\* Phase 6: the fields copied without parsing, "" when absent.
phase6_passthrough(entu_row_, result_) ==
    Update(result_,
           [name |-> Get(entu_row_, "name", PyStr(<<>>)),
            description |-> Get(entu_row_, "description", PyStr(<<>>)),
            donator_direct |-> Get(entu_row_, "donator", PyStr(<<>>)),
            autor_direct |-> Get(entu_row_, "autor", PyStr(<<>>))])

-----------------------------------------------------------------------------
(* scripts/batch_processor.py                                              *)

\* split_large_collection(records, max_rows): the list of chunks.
split_large_collection(records, max_rows) ==
    LET \* range(start, stop, step) as the sequence of its values, for a
        \* step that is not 0.
        range(start, stop, step) ==
            LET count == IF step > 0 /\ start < stop
                         THEN (stop - start + step - 1) \div step
                         ELSE IF step < 0 /\ start > stop
                         THEN (start - stop - step - 1) \div (-step)
                         ELSE 0
            IN [k \in 1..count |-> start + (k - 1) * step]
        \* records[i:j] for 0 <= i: the items at the 0-based positions
        \* i..j-1 that exist (a negative j counts from the end).
        slice(i, j) ==
            LET stop == IF j < 0 THEN Len(records) + j ELSE j
                last == IF stop > Len(records) THEN Len(records) ELSE stop
            IN IF last <= i THEN <<>> ELSE SubSeq(records, i + 1, last)
    IN IF Len(records) <= max_rows THEN Return(PyList(<<PyList(records)>>))
       \* range() arg 3 must not be zero
       ELSE IF max_rows = 0 THEN Raise("ValueError")
       ELSE LET starts == range(0, Len(records), max_rows)
            IN Return(PyList([k \in 1..Len(starts) |->
                                  PyList(slice(starts[k], starts[k] + max_rows))]))

\* What convert_collection returns after its loop: (excel_path, success
\* count, error count).  Nothing is written for no converted record; an
\* exception of write_muis_csv or csv_to_excel is caught and gives no path.
\* `written` tells whether the file system let both files be written.
convert_collection_return(converted, errors, written) ==
    LET mapped == \A k \in 1..Len(converted) :
                      orchestrator_to_muis_row(converted[k].d).raised = "none"
    IN IF converted = <<>> THEN PyList(<<PyNone, PyInt(0), PyInt(errors)>>)
       ELSE IF mapped /\ written
       THEN PyList(<<PyStr(<<"x", "l", "s", "x">>), PyInt(Len(converted)), PyInt(errors)>>)
       ELSE PyList(<<PyNone, PyInt(Len(converted)), PyInt(errors)>>)

-----------------------------------------------------------------------------
(* Records and maps the calls are given.                                   *)

\* The subsets of S with at most n elements.
RECURSIVE SubsetsUpTo(_, _)
SubsetsUpTo(S, n) ==
    IF n = 0 THEN {{}}
    ELSE LET smaller == SubsetsUpTo(S, n - 1)
         IN smaller \cup {K \cup {k} : K \in smaller, k \in S}

\* The dicts with key set K and, under each key k, a value of Values[k].
RECURSIVE DictsOver(_, _)
DictsOver(K, Values) ==
    IF K = {} THEN {EmptyDict}
    ELSE LET k == CHOOSE x \in K : TRUE
         IN {Put(d, k, v) : d \in DictsOver(K \ {k}, Values), v \in Values[k]}

\* A value that is no str: a number.
NonStr == PyInt(20027)

\* Text of a field that is copied, not parsed: absent from the record,
\* None, "", or some text.
TextValues == {PyNone, PyStr(<<>>), PyStr(<<"a", ",", " ", "b", "\n", "õ">>)}

\* The values a source record holds under each key.
SourceValues ==
    [code |-> {PyNone, PyStr(<<>>), NonStr, PyStr(<<"I", "N", "V", "A", "L", "I", "D">>),
               PyStr(<<"0", "0", "0", "0", "0", "1", "/", "0", "0", "1">>), PyStr(<<"0", "2", "0", "0", "8", "2", "/", "0", "0", "0">>), PyStr(<<" ", "0", "2", "0", "0", "2", "7", "/", "1", "1", "7", " ">>)},
     dimensions |-> {PyNone, PyStr(<<>>), NonStr, PyStr(<<"ø", "5", "0">>), PyStr(<<"6", "2", "x", "7", "0">>),
                     PyStr(<<"ø", "5", "0", ";", "6", "2", "x", "7", "0">>), PyStr(<<"1", "x", "2", "x", "3", ";", "4", "x", "5", ".", "5", "x", "6">>), PyStr(<<"a", "b", "c">>)},
     date |-> {PyNone, PyStr(<<>>), NonStr, PyStr(<<"2", "0", "0", "2", "-", "1", "2", "-", "2", "2">>), PyStr(<<"2", "0", "2", "3", "-", "0", "2", "-", "2", "9">>),
               PyStr(<<"i", "n", "v", "a", "l", "i", "d">>)},
     donator |-> {PyNone, PyStr(<<>>), NonStr, PyStr(<<"T", "a", "m", "m", ",", " ", "J", "a", "a", "n">>), PyStr(<<"1", "3", "9", "8", "6", "2">>),
                  PyStr(<<" ", "J", "a", "a", "n", " ">>)},
     autor |-> {PyStr(<<>>), NonStr, PyStr(<<"J", "a", "a", "n">>), PyStr(<<"1", "2", "3", "4", "5", "6">>)},
     materials |-> {PyNone, PyStr(<<>>), NonStr, PyStr(<<"/", "m", "a", "t", "e", "r", "j", "a", "l", "/", "m", "e", "t", "a", "l", "l", "/">>), PyStr(<<"m", "e", "t", "a", "l", "l">>),
                    PyStr(<<"/">>)},
     techniques |-> {PyStr(<<>>), NonStr, PyStr(<<"a", "/", "b">>)},
     colors |-> {PyStr(<<>>), NonStr, PyStr(<<"/", "v", "/", "p", "r", "u", "u", "n">>)},
     name |-> TextValues,
     description |-> TextValues \cup {PyStr(<<"D">>)},
     asukoht |-> TextValues,
     vastuv6tuakt |-> TextValues,
     year |-> TextValues,
     legend |-> TextValues,
     public_legend |-> TextValues]


\* The values a map given to orchestrator_to_muis_row holds under each of
\* the keys convert_row or its callers may set: None, "" and a text or
\* number of its own for each key; under "measurements" also lists shorter
\* and longer than the four slots, items with missing keys, and None items.
OptionalText(text) == {PyNone, PyStr(<<>>), PyStr(text)}

OptionalNumber(n) == {PyNone, PyInt(0), PyInt(n)}

M(parameeter, num) == Measurement(parameeter, PyFloat(num, 1))

IntermediateValues ==
    [acr |-> OptionalText(<<"V", "B", "M">>),
     trt |-> OptionalText(<<"_">>),
     trs |-> OptionalNumber(20027),
     trj |-> OptionalNumber(117),
     trl |-> OptionalText(<<"a">>),
     kt |-> OptionalText(<<"k", "t">>),
     ks |-> OptionalNumber(3),
     kj |-> OptionalNumber(4),
     kl |-> OptionalText(<<"b">>),
     measurements |->
         {PyNone, PyList(<<>>), PyList(<<PyNone>>),
          PyList(<<M(STR_korgus, 168), M(STR_laius, 121)>>),
          PyList(<<M(STR_korgus, 100), M(STR_laius, 200), M(STR_sugavus, 50),
                   M(STR_labimoot, 30), M(STR_korgus, 7)>>),
          PyList(<<PyDict([parameeter |-> PyStr(STR_laius)]), PyDict(EmptyDict)>>)},
     date |-> OptionalText(<<"d", "a", "t", "!">>),
     donator |-> OptionalText(<<"d", "o", "n", "!">>),
     autor |-> OptionalText(<<"a", "u", "t", "!">>),
     material |-> OptionalText(<<"m", "a", "t", "!">>),
     technique |-> OptionalText(<<"t", "e", "c", "!">>),
     color |-> OptionalText(<<"c", "o", "l", "!">>),
     name |-> OptionalText(<<"n", "a", "m", "!">>),
     description |-> OptionalText(<<"d", "e", "s", "!">>),
     donator_direct |-> OptionalText(<<"d", "o", "n", "!">>),
     autor_direct |-> OptionalText(<<"a", "u", "t", "!">>),
     asukoht |-> OptionalText(<<"a", "s", "u", "!">>),
     vastuvotuakt |-> OptionalText(<<"v", "a", "s", "!">>),
     code_original |-> OptionalText(<<"c", "o", "d", "!">>),
     year |-> OptionalText(<<"y", "e", "a", "!">>),
     legend |-> OptionalText(<<"l", "e", "g", "!">>),
     public_legend |-> OptionalText(<<"p", "u", "b", "!">>)]

-----------------------------------------------------------------------------
(* A direct call of parse_entu_code on a well-formed code, a code with one *)
(* character dropped, added or changed, or a value that is no code.        *)

InitCode ==
    LET GenDigits == {DigitChar[d + 1] : d \in 0..MaxDigit}
        \* Every code NNNNNN/NNN over the generated digits.
        WellFormedCodes ==
            {[i \in 1..(SERIES_DIGITS + 1 + SEQ_DIGITS) |->
                  IF i <= SERIES_DIGITS THEN sd[i]
                  ELSE IF i = SERIES_DIGITS + 1 THEN "/"
                  ELSE jd[i - SERIES_DIGITS - 1]] :
                sd \in [1..SERIES_DIGITS -> GenDigits], jd \in [1..SEQ_DIGITS -> GenDigits]}
        \* The codes the tests and the documentation name.
        NamedCodes ==
            {<<"0", "2", "0", "0", "2", "7", "/", "1", "1", "7">>,
             <<"0", "0", "6", "5", "6", "2", "/", "0", "0", "1">>,
             <<"0", "0", "0", "0", "0", "1", "/", "0", "0", "1">>,
             <<"0", "2", "0", "0", "8", "2", "/", "0", "0", "0">>,
             <<"9", "9", "9", "9", "9", "9", "/", "9", "9", "9">>,
             <<"0", "1", "9", "7", "9", "8", "/", "0", "0", "0">>}
        \* The codes that are edited: those over the digits 0 and 1.
        EditBases == {s \in WellFormedCodes : \A i \in 1..Len(s) : s[i] \in {"0", "1", "/"}}
        \* A space, a letter and a digit outside the generated ones.
        EditChars == {" ", "A", "9"}
        \* The edits of a code of length n: a character dropped, added or
        \* changed, or the code wrapped in whitespace.
        Edits(n) ==
            {<<"delete", p, "">> : p \in 1..n}
            \cup {<<"insert", p, c>> : p \in 1..(n + 1), c \in EditChars}
            \cup {<<"replace", p, c>> : p \in 1..n, c \in EditChars}
            \cup {<<"wrap", 0, "">>}
        ApplyEdit(s, e) ==
            CASE e[1] = "delete" -> SubSeq(s, 1, e[2] - 1) \o SubSeq(s, e[2] + 1, Len(s))
              [] e[1] = "insert" -> SubSeq(s, 1, e[2] - 1) \o <<e[3]>> \o SubSeq(s, e[2], Len(s))
              [] e[1] = "replace" -> [s EXCEPT ![e[2]] = e[3]]
              [] OTHER -> <<" ">> \o s \o <<" ", "\n">>
        \* Values that are no code at all: None, "", blank, a number, lists,
        \* letters.
        NonCodes ==
            {PyNone, PyStr(<<>>), PyStr(<<" ">>), PyInt(0), PyInt(20027),
             PyList(<<>>), PyList(<<PyStr(<<"0">>)>>),
             PyStr(<<"A", "B", "C", "/", "X", "Y", "Z">>)}
    IN
    /\ pc = "call"
    /\ \/ \E s \in WellFormedCodes \cup NamedCodes : arg = PyStr(s)
       \/ \E s \in EditBases : \E e \in Edits(Len(s)) : arg = PyStr(ApplyEdit(s, e))
       \/ arg \in NonCodes
    /\ ret = Unset
    /\ exc = "none"
    /\ entu_row = EmptyDict
    /\ result = EmptyDict
    /\ orchestrator_output = EmptyDict
    /\ muis_row = EmptyDict
    /\ next_record = 0
    /\ converted_records = <<>>
    /\ error_count = 0
    /\ heap = <<>>

CallParseEntuCode ==
    /\ pc = "call"
    /\ LET outcome == parse_entu_code(arg)
       IN /\ ret' = outcome.value
          /\ exc' = outcome.raised
          /\ pc' = IF outcome.raised = "none" THEN "returned" ELSE "raised"
    /\ UNCHANGED <<arg, entu_row, result, orchestrator_output, muis_row,
                 next_record, converted_records, error_count, heap>>

SpecCode == InitCode /\ [][CallParseEntuCode]_vars

-----------------------------------------------------------------------------
(* convert_row on one source record, then orchestrator_to_muis_row on what *)
(* it returned (write_muis_csv's loop body).                               *)

\* Source records hold at most MaxFields of the keys.
InitRow ==
    /\ pc = "phase1"
    /\ \E K \in SubsetsUpTo(DOMAIN SourceValues, MaxFields) :
           entu_row \in DictsOver(K, SourceValues)
    /\ result = EmptyDict
    /\ exc = "none"
    /\ arg = Unset
    /\ ret = Unset
    /\ orchestrator_output = EmptyDict
    /\ muis_row = EmptyDict
    /\ next_record = 0
    /\ converted_records = <<>>
    /\ error_count = 0
    /\ heap = <<>>

\* One phase of convert_row with outcome `outcome`, followed by `next`.
PhaseStep(at, outcome, next) ==
    /\ pc = at
    /\ result' = outcome.value
    /\ exc' = outcome.raised
    /\ pc' = IF outcome.raised = "none" THEN next ELSE "raised"
    /\ UNCHANGED <<arg, ret, entu_row, orchestrator_output, muis_row,
                 next_record, converted_records, error_count, heap>>

Phase1 == PhaseStep("phase1", phase1_number(entu_row, result), "phase2")

Phase2 == PhaseStep("phase2", Return(phase2_dimensions(entu_row, result)), "phase3")

Phase3 ==
    \E pad_year \in BOOLEAN :
        PhaseStep("phase3", phase3_date(entu_row, result, pad_year), "phase4")

Phase4 == PhaseStep("phase4", phase4_person(entu_row, result), "phase5")

Phase5 == PhaseStep("phase5", phase5_vocab(entu_row, result), "phase6")

Phase6 == PhaseStep("phase6", Return(phase6_passthrough(entu_row, result)), "returned")

\* A call of orchestrator_to_muis_row(o).
MuisRowStep(o) ==
    LET outcome == orchestrator_to_muis_row(o)
    IN /\ orchestrator_output' = o
       /\ muis_row' = IF outcome.raised = "none" THEN outcome.value ELSE EmptyDict
       /\ exc' = outcome.raised
       /\ pc' = IF outcome.raised = "none" THEN "mapped" ELSE "raised"

\* write_muis_csv maps each converted record.
WriteRow ==
    /\ pc = "returned"
    /\ MuisRowStep(result)
    /\ UNCHANGED <<arg, ret, entu_row, result, next_record, converted_records, error_count, heap>>

NextRow == Phase1 \/ Phase2 \/ Phase3 \/ Phase4 \/ Phase5 \/ Phase6 \/ WriteRow

SpecRow == InitRow /\ [][NextRow]_vars

-----------------------------------------------------------------------------
(* A direct call of orchestrator_to_muis_row on any map.                   *)

\* The maps hold at most MaxFields of the keys.
InitWriter ==
    /\ pc = "call"
    /\ \E K \in SubsetsUpTo(DOMAIN IntermediateValues, MaxFields) :
           orchestrator_output \in DictsOver(K, IntermediateValues)
    /\ muis_row = EmptyDict
    /\ exc = "none"
    /\ arg = Unset
    /\ ret = Unset
    /\ entu_row = EmptyDict
    /\ result = EmptyDict
    /\ next_record = 0
    /\ converted_records = <<>>
    /\ error_count = 0
    /\ heap = <<>>

CallOrchestratorToMuisRow ==
    /\ pc = "call"
    /\ MuisRowStep(orchestrator_output)
    /\ UNCHANGED <<arg, ret, entu_row, result, next_record, converted_records, error_count, heap>>

SpecWriter == InitWriter /\ [][CallOrchestratorToMuisRow]_vars

-----------------------------------------------------------------------------
(* A direct call of parse_dimensions.                                      *)

\* The clauses dimension strings are joined from: diameters, HxW and HxWxD,
\* zero values, text that is no dimension, blanks, both notations in one
\* clause, and a capital letter the patterns do not know.
DimensionClauses ==
    <<<<"ø", "5", "0">>,
      <<"d", ":", "5">>,
      <<"6", "2", "x", "7", "0">>,
      <<"1", "x", "2", "x", "3">>,
      <<"4", "x", "5", ".", "5", "x", "6">>,
      <<"ø", "0">>,
      <<"0", "x", "0">>,
      <<"a", "b", "c">>,
      <<>>,
      <<" ">>,
      <<"ø", "5", " ", "2", "x", "3">>,
      <<"2", "x", "3", "ø", "5">>,
      <<"d", ",", "7", "x", "8">>,
      <<"Ø", "5", "0">>>>

RECURSIVE JoinClauses(_)
JoinClauses(cs) ==
    IF Len(cs) = 1 THEN DimensionClauses[cs[1]]
    ELSE DimensionClauses[cs[1]] \o <<";">> \o JoinClauses(Tail(cs))

\* A clause list of at most MaxClauses clauses, or a value that is no
\* string: None, numbers, a list.
InitDimensions ==
    /\ pc = "call"
    /\ \/ \E n \in 1..MaxClauses :
              \E cs \in [1..n -> 1..Len(DimensionClauses)] : arg = PyStr(JoinClauses(cs))
       \/ arg \in {PyNone, PyInt(0), PyInt(50), PyList(<<>>), PyList(<<PyStr(<<"ø", "5">>)>>)}
    /\ ret = Unset
    /\ exc = "none"
    /\ entu_row = EmptyDict
    /\ result = EmptyDict
    /\ orchestrator_output = EmptyDict
    /\ muis_row = EmptyDict
    /\ next_record = 0
    /\ converted_records = <<>>
    /\ error_count = 0
    /\ heap = <<>>

\* A call f(arg) with outcome `outcome`.
CallStep(outcome) ==
    /\ pc = "call"
    /\ ret' = outcome.value
    /\ exc' = outcome.raised
    /\ pc' = IF outcome.raised = "none" THEN "returned" ELSE "raised"
    /\ UNCHANGED <<arg, entu_row, result, orchestrator_output, muis_row,
                 next_record, converted_records, error_count, heap>>

CallParseDimensions == CallStep(parse_dimensions_call(arg))

SpecDimensions == InitDimensions /\ [][CallParseDimensions]_vars

-----------------------------------------------------------------------------
(* A direct call of convert_date.                                          *)

\* Dates written from years, months and days at the ends of each range,
\* of leap and common years and of years of fewer than four digits,
\* followed by nothing, a time or a tail that is no time; text that is no
\* ISO date; values that are no string.
InitDate ==
    LET DateYears ==
            {<<"0", "0", "0", "0">>, <<"0", "0", "0", "1">>, <<"0", "9", "9", "9">>, <<"1", "0", "0", "0">>, <<"1", "9", "0", "0">>, <<"1", "9", "5", "6">>, <<"2", "0", "0", "0">>, <<"2", "0", "0", "2">>, <<"2", "0", "2", "3">>, <<"2", "0", "2", "4">>, <<"9", "9", "9", "9">>}
        DateMonths == {<<"0", "0">>, <<"0", "1">>, <<"0", "2">>, <<"0", "4">>, <<"1", "2">>, <<"1", "3">>}
        DateDays == {<<"0", "0">>, <<"0", "1">>, <<"2", "8">>, <<"2", "9">>, <<"3", "0">>, <<"3", "1">>, <<"3", "2">>}
        DateTails ==
            {<<>>, <<"T", "1", "0", ":", "3", "0", ":", "0", "0">>,
             <<" ", "1", "0", ":", "3", "0">>,
             <<"T", "1", "0">>,
             <<"T">>,
             <<"T", "2", "4", ":", "0", "0">>,
             <<"x">>}
        NonIsoDates ==
            {<<>>,
             <<"i", "n", "v", "a", "l", "i", "d">>,
             <<"2", "0", "0", "2", "/", "1", "2", "/", "2", "2">>,
             <<"2", "2", ".", "1", "2", ".", "2", "0", "0", "2">>,
             <<"2", "0", "0", "2", "-", "1", "2", "-", "2">>,
             <<"2", "0", "0", "2", "-", "1", "-", "2", "2">>,
             <<"0", "2", "-", "1", "2", "-", "2", "2">>,
             <<" ", "2", "0", "0", "2", "-", "1", "2", "-", "2", "2">>,
             <<"2", "0", "0", "2", "-", "1", "2", "-", "2", "2", " ">>,
             <<"2", "0", "0", "2", "-", "1", "2">>,
             <<"2", "0", "0", "2">>,
             <<" ">>}
        NonDates == {PyNone, PyInt(0), PyInt(20021222), PyList(<<>>), PyList(<<PyStr(<<"2", "0", "0", "2">>)>>)}
    IN /\ pc = "call"
       /\ \/ \E y \in DateYears, m \in DateMonths, d \in DateDays, tail \in DateTails :
                 arg = PyStr(y \o <<"-">> \o m \o <<"-">> \o d \o tail)
          \/ \E s \in NonIsoDates : arg = PyStr(s)
          \/ arg \in NonDates
       /\ ret = Unset
       /\ exc = "none"
       /\ entu_row = EmptyDict
       /\ result = EmptyDict
       /\ orchestrator_output = EmptyDict
       /\ muis_row = EmptyDict
       /\ next_record = 0
       /\ converted_records = <<>>
       /\ error_count = 0
       /\ heap = <<>>

CallConvertDate == \E pad_year \in BOOLEAN : CallStep(convert_date(arg, pad_year))

SpecDate == InitDate /\ [][CallConvertDate]_vars

-----------------------------------------------------------------------------
(* A direct call of classify_entity.                                       *)

\* The words names are joined from: surnames (one ending in "as"),
\* organization keywords in either case, company abbreviations, the NGO
\* marker.
NameWords ==
    <<<<"T", "a", "m", "m">>, <<"K", "a", "a", "s">>, <<"M", "u", "u", "s", "e", "u", "m">>, <<"M", "U", "S", "E", "U", "M">>, <<"O", "Ü">>, <<"A", "S">>, <<"s", "a">>, <<"M", "T", "Ü">>, <<"F", "o", "n", "d", "i">>, <<"Ü", "l", "i", "k", "o", "o", "l">>>>

\* The names of n words, with a space, a comma or both between two words.
RECURSIVE NamesOf(_)
NamesOf(n) ==
    IF n = 1 THEN {NameWords[i] : i \in 1..Len(NameWords)}
    ELSE {head \o sep \o NameWords[i] :
              head \in NamesOf(n - 1), sep \in {<<" ">>, <<",">>, <<",", " ">>},
              i \in 1..Len(NameWords)}

InitClassify ==
    /\ pc = "call"
    /\ \E n \in 1..MaxWords : \E name \in NamesOf(n) : arg = PyStr(name)
    /\ ret = Unset
    /\ exc = "none"
    /\ entu_row = EmptyDict
    /\ result = EmptyDict
    /\ orchestrator_output = EmptyDict
    /\ muis_row = EmptyDict
    /\ next_record = 0
    /\ converted_records = <<>>
    /\ error_count = 0
    /\ heap = <<>>

CallClassifyEntity == CallStep(Return(classify_entity(arg.s)))

SpecClassify == InitClassify /\ [][CallClassifyEntity]_vars

-----------------------------------------------------------------------------
(* A direct call of map_person.                                            *)

\* The strings of at most n characters of the set chars.
RECURSIVE StringsUpTo(_, _)
StringsUpTo(chars, n) ==
    IF n = 0 THEN {<<>>}
    ELSE LET shorter == StringsUpTo(chars, n - 1)
         IN shorter \cup {str \o <<c>> : str \in shorter, c \in chars}

\* Strings of digits, a letter, the comma and the space, and values that
\* are no string: None, a numeric ID as a number, a list.
InitPerson ==
    /\ pc = "call"
    /\ \/ \E str \in StringsUpTo({"1", "2", "a", ",", " "}, MaxChars) : arg = PyStr(str)
       \/ arg \in {PyNone, PyInt(0), PyInt(139862), PyList(<<>>), PyList(<<PyStr(<<"a">>)>>)}
    /\ ret = Unset
    /\ exc = "none"
    /\ entu_row = EmptyDict
    /\ result = EmptyDict
    /\ orchestrator_output = EmptyDict
    /\ muis_row = EmptyDict
    /\ next_record = 0
    /\ converted_records = <<>>
    /\ error_count = 0
    /\ heap = <<>>

CallMapPerson == CallStep(map_person(arg))

SpecPerson == InitPerson /\ [][CallMapPerson]_vars

-----------------------------------------------------------------------------
(* A direct call of map_material, map_technique or map_color.              *)

\* Strings of letters, the slash and the space, and values that are no
\* string: None, numbers, a list.  pc names the mapper that is called.
InitVocab ==
    /\ pc \in {"call map_material", "call map_technique", "call map_color"}
    /\ \/ \E str \in StringsUpTo({"a", "b", "/", " "}, MaxChars) : arg = PyStr(str)
       \/ arg \in {PyNone, PyInt(0), PyInt(5), PyList(<<>>), PyList(<<PyStr(<<"a">>)>>)}
    /\ ret = Unset
    /\ exc = "none"
    /\ entu_row = EmptyDict
    /\ result = EmptyDict
    /\ orchestrator_output = EmptyDict
    /\ muis_row = EmptyDict
    /\ next_record = 0
    /\ converted_records = <<>>
    /\ error_count = 0
    /\ heap = <<>>

\* The call pc names, with outcome `outcome`.
VocabStep(at, outcome) ==
    /\ pc = at
    /\ ret' = outcome.value
    /\ exc' = outcome.raised
    /\ pc' = IF outcome.raised = "none" THEN at \o " returned" ELSE at \o " raised"
    /\ UNCHANGED <<arg, entu_row, result, orchestrator_output, muis_row,
                 next_record, converted_records, error_count, heap>>

CallMapMaterial == VocabStep("call map_material", map_material(arg))

CallMapTechnique == VocabStep("call map_technique", map_technique(arg))

CallMapColor == VocabStep("call map_color", map_color(arg))

NextVocab == CallMapMaterial \/ CallMapTechnique \/ CallMapColor

SpecVocab == InitVocab /\ [][NextVocab]_vars

-----------------------------------------------------------------------------
(* A direct call of parse_multiline_names.                                 *)

\* The name fields of at most n lines.  A line holds a name, bare or with
\* whitespace around it, nothing, a blank, or a name with a carriage
\* return inside; it ends with "\n" or "\r\n".
RECURSIVE FieldsOf(_)
FieldsOf(n) ==
    LET LineTexts ==
            {<<"a">>, <<" ", "a">>, <<"a", " ">>, <<>>, <<" ">>, <<"a", " ", "b">>,
             <<"a", "\r", "b">>}
        LineEndings == {<<"\n">>, <<"\r", "\n">>}
    IN IF n = 1 THEN LineTexts
       ELSE LET shorter == FieldsOf(n - 1)
            IN shorter \cup {f \o e \o t : f \in shorter, e \in LineEndings, t \in LineTexts}

InitNames ==
    /\ pc = "call"
    /\ \E f \in FieldsOf(MaxLines) : arg = PyStr(f)
    /\ ret = Unset
    /\ exc = "none"
    /\ entu_row = EmptyDict
    /\ result = EmptyDict
    /\ orchestrator_output = EmptyDict
    /\ muis_row = EmptyDict
    /\ next_record = 0
    /\ converted_records = <<>>
    /\ error_count = 0
    /\ heap = <<>>

CallParseMultilineNames == CallStep(Return(parse_multiline_names(arg)))

SpecNames == InitNames /\ [][CallParseMultilineNames]_vars

-----------------------------------------------------------------------------
(* The construction of a MuisMuseaal.                                      *)

\* A record with its required fields, the fields one dependency rule reads
\* (FieldGroups) given any values, and at most one field more.  The values
\* of a field (FieldValues): None, the empty and a filled text; a zero and
\* a positive number for a measurement value; "Eesti" for a country; the
\* conditions for seisund.
InitMuseaal ==
    LET FieldGroups ==
            {{"parameeter_" \o n, "yhik_" \o n, "vaartus_" \o n} : n \in {"1", "2", "3", "4"}}
            \cup {{"materjal_" \o n, "materjali_" \o n \o "_kommentaar"} : n \in {"1", "2", "3"}}
            \cup {{"tehnika_" \o n, "tehnika_" \o n \o "_kommentaar"} : n \in {"1", "2", "3"}}
            \cup {{"osaleja_" \o n, "osaleja_roll_" \o n} : n \in {"1", "2"}}
            \cup {{"toimumiskoha_tapsustus_kohanimi_" \o n, "toimumiskoha_tapsustus_selgitus_" \o n} :
                      n \in {"1", "2"}}
            \cup {{"dateeringu_lopp_" \o n, "dateering_algus_" \o n} : n \in {"1", "2"}}
            \cup {{"riik_" \o n, "eesti_admin_yksus_" \o n, "kihelkond_" \o n} : n \in {"1", "2"}}
            \cup {{"teksti_tyyp_" \o n, "tekst_" \o n} : n \in {"1", "2"}}
            \cup {{"nimetuse_tyyp", "alt_nimetus"}, {"numbri_tyyp", "alt_number"},
                  {"seisund", "kahjustused"}, {"viite_tyyp", "viite_vaartus"},
                  {"leiukontekst", "leiu_liik"}}
        FieldValues ==
            [f \in UNION FieldGroups |->
                IF f \in {"vaartus_1", "vaartus_2", "vaartus_3", "vaartus_4"}
                THEN {PyNone, PyFloat(0, 1), PyFloat(3, 2)}
                ELSE IF f \in {"riik_1", "riik_2"}
                THEN {PyNone, PyStr(<<>>), PyStr(<<"x">>), PyStr(<<"E", "e", "s", "t", "i">>)}
                ELSE IF f = "seisund"
                THEN {PyNone, PyStr(<<>>), PyStr(<<"h", "e", "a">>), PyStr(<<"h", "a", "l", "b">>),
                      PyStr(<<"v", "ä", "g", "a", " ", "h", "a", "l", "b">>)}
                ELSE {PyNone, PyStr(<<>>), PyStr(<<"x">>)}]
        required == ("acr" :> PyStr(<<"V", "B", "M">>)) @@ ("trs" :> PyInt(1))
                    @@ ("nimetus" :> PyStr(<<"n">>))
    IN /\ pc = "call"
       /\ \E G \in FieldGroups :
              \E d \in DictsOver(G, FieldValues) :
                  \/ arg = PyDict(d @@ required)
                  \/ \E f \in (UNION FieldGroups) \ G : \E v \in FieldValues[f] \ {PyNone} :
                         arg = PyDict(d @@ (f :> v) @@ required)
       /\ ret = Unset
       /\ exc = "none"
       /\ entu_row = EmptyDict
       /\ result = EmptyDict
       /\ orchestrator_output = EmptyDict
       /\ muis_row = EmptyDict
       /\ next_record = 0
       /\ converted_records = <<>>
       /\ error_count = 0
       /\ heap = <<>>

ConstructMuisMuseaal == CallStep(MuisMuseaal(arg.d))

SpecMuseaal == InitMuseaal /\ [][ConstructMuisMuseaal]_vars

-----------------------------------------------------------------------------
(* convert_collection(collection_name, records, ...) on a list of records:  *)
(* its loop over the records, then the writing of what was converted.      *)

\* The list holds at most MaxRecords records, each a dict as the CSV reader
\* or a caller builds it: some convert, some make convert_row raise (a date,
\* person or material that is no string).
InitBatch ==
    LET Records ==
            {EmptyDict}
            \cup {[code |-> v] : v \in {PyStr(<<"0", "2", "0", "0", "8", "2", "/", "0", "0", "0">>),
                                        PyStr(<<"I", "N", "V", "A", "L", "I", "D">>)}}
            \cup {[date |-> v] : v \in {PyStr(<<"2", "0", "0", "2", "-", "1", "2", "-", "2", "2">>),
                                        NonStr}}
            \cup {[donator |-> v] : v \in {PyStr(<<"1", "3", "9", "8", "6", "2">>), NonStr}}
            \cup {[materials |-> v] : v \in {NonStr}}
    IN /\ pc = "loop"
       /\ \E n \in 0..MaxRecords :
              \E records \in [1..n -> Records] :
                  arg = PyList([k \in 1..n |-> PyDict(records[k])])
       /\ next_record = 1
       /\ converted_records = <<>>
       /\ error_count = 0
       /\ heap = <<>>
       /\ ret = Unset
       /\ exc = "none"
       /\ entu_row = EmptyDict
       /\ result = EmptyDict
       /\ orchestrator_output = EmptyDict
       /\ muis_row = EmptyDict

\* "for record in records": the next record is handed to convert_row,
\* which starts from an empty result.
StartRecord ==
    /\ pc = "loop"
    /\ next_record <= Len(arg.l)
    /\ entu_row' = arg.l[next_record].d
    /\ result' = EmptyDict
    /\ pc' = "phase1"
    /\ UNCHANGED <<arg, ret, exc, orchestrator_output, muis_row,
                 next_record, converted_records, error_count, heap>>

\* convert_row returned: converted_records.append(converted).
KeepRecord ==
    /\ pc = "returned"
    /\ converted_records' = Append(converted_records, PyDict(result))
    /\ next_record' = next_record + 1
    /\ pc' = "loop"
    /\ UNCHANGED <<arg, ret, exc, entu_row, result, orchestrator_output, muis_row,
                 error_count, heap>>

\* Without the try/except the exception of convert_row leaves the loop and
\* the call.  (Not the program's: FailureNeverStopsSiblings tells the two
\* apart.)
LeaveLoop ==
    /\ pc = "raised"
    /\ pc' = "failed"
    /\ UNCHANGED <<arg, ret, exc, entu_row, result, orchestrator_output, muis_row,
                 next_record, converted_records, error_count, heap>>

\* convert_row raised: "except Exception" counts the record and logs it.
CountError ==
    /\ pc = "raised"
    /\ error_count' = error_count + 1
    /\ exc' = "none"
    /\ next_record' = next_record + 1
    /\ pc' = "loop"
    /\ UNCHANGED <<arg, ret, entu_row, result, orchestrator_output, muis_row,
                 converted_records, heap>>

\* The loop is over: the files are written and the counts returned.
FinishCollection ==
    /\ pc = "loop"
    /\ next_record > Len(arg.l)
    /\ \E written \in BOOLEAN :
           ret' = convert_collection_return(converted_records, error_count, written)
    /\ pc' = "done"
    /\ UNCHANGED <<arg, exc, entu_row, result, orchestrator_output, muis_row,
                 next_record, converted_records, error_count, heap>>

NextBatch ==
    \/ StartRecord
    \/ Phase1 \/ Phase2 \/ Phase3 \/ Phase4 \/ Phase5 \/ Phase6
    \/ KeepRecord
    \/ CountError
    \/ FinishCollection

\* The loop is sequential code over a finite list, and nothing in it waits:
\* while the call has not ended its control moves on.  Fairness is stated
\* on the control alone: every step of NextBatch changes pc as below, and
\* one is possible whenever pc is not "done".
SpecBatch ==
    /\ InitBatch
    /\ [][NextBatch]_vars
    /\ WF_pc(\/ pc = "loop" /\ next_record <= Len(arg.l) /\ pc' = "phase1"
             \/ pc = "loop" /\ next_record > Len(arg.l) /\ pc' = "done"
             \/ /\ pc \in {"phase1", "phase2", "phase3", "phase4", "phase5", "phase6"}
                /\ pc' \in {"phase2", "phase3", "phase4", "phase5", "phase6",
                            "returned", "raised"}
             \/ pc \in {"returned", "raised"} /\ pc' = "loop")

-----------------------------------------------------------------------------
(* A direct call of split_large_collection(records, max_rows).             *)

\* arg holds the two arguments: a list of at most MaxRecords records and
\* the --max-rows-per-file value, any integer (argparse's type=int).
InitSplit ==
    LET Records == {PyDict([code |-> PyStr(<<"1">>)]), PyDict([code |-> PyStr(<<"2">>)]),
                    PyDict(EmptyDict)}
    IN /\ pc = "call"
       /\ \E n \in 0..MaxRecords :
              \E records \in [1..n -> Records] :
                  \E max_rows \in (-2)..(MaxRecords + 1) :
                      arg = PyList(<<PyList(records), PyInt(max_rows)>>)
       /\ ret = Unset
       /\ exc = "none"
       /\ entu_row = EmptyDict
       /\ result = EmptyDict
       /\ orchestrator_output = EmptyDict
       /\ muis_row = EmptyDict
       /\ next_record = 0
       /\ converted_records = <<>>
       /\ error_count = 0
       /\ heap = <<>>

CallSplitLargeCollection == CallStep(split_large_collection(arg.l[1].l, arg.l[2].n))

SpecSplit == InitSplit /\ [][CallSplitLargeCollection]_vars

-----------------------------------------------------------------------------
(* A caller of the translation core: it converts the records of a batch in *)
(* any order, any of them again, keeps every output, maps any output it    *)
(* keeps to a MUIS row, and may change the measurement list of an output.  *)

\* An output the caller keeps: the position of the record it came from, the
\* dict convert_row returned with its measurement list held by identity,
\* and the row orchestrator_to_muis_row made of it (None before).
\* The dict an output holds now, its measurement list read from the heap.
Deref(converted) == Put(converted.d, "measurements", heap[converted.d["measurements"].id])

InitCore ==
    LET Records ==
            {[dimensions |-> PyStr(<<"ø", "5", "0">>)],
             [dimensions |-> PyStr(<<"6", "2", "x", "7", "0">>),
              date |-> PyStr(<<"2", "0", "0", "2", "-", "1", "2", "-", "2", "2">>)],
             [donator |-> NonStr]}
    IN /\ pc = "idle"
       /\ \E n \in 1..MaxCalls :
              \E records \in [1..n -> Records] :
                  /\ \A i, j \in 1..n : records[i] = records[j] => i = j
                  /\ arg = PyList([k \in 1..n |-> PyDict(records[k])])
       /\ next_record = 0
       /\ converted_records = <<>>
       /\ error_count = 0
       /\ heap = <<>>
       /\ ret = Unset
       /\ exc = "none"
       /\ entu_row = EmptyDict
       /\ result = EmptyDict
       /\ orchestrator_output = EmptyDict
       /\ muis_row = EmptyDict

\* convert_row(records[k]) for any k, whatever was converted before.
ConvertAny ==
    /\ pc = "idle"
    /\ Len(converted_records) + error_count < MaxCalls
    /\ \E k \in 1..Len(arg.l) :
           /\ next_record' = k
           /\ entu_row' = arg.l[k].d
    /\ result' = EmptyDict
    /\ pc' = "phase1"
    /\ UNCHANGED <<arg, ret, exc, orchestrator_output, muis_row,
                 converted_records, error_count, heap>>

\* convert_row returned: the caller keeps the dict; its measurement list is
\* the object parse_dimensions built.
KeepOutput ==
    /\ pc = "returned"
    /\ LET id == new_list(heap)
       IN /\ heap' = IF id <= Len(heap)
                     THEN [heap EXCEPT ![id] = result["measurements"]]
                     ELSE Append(heap, result["measurements"])
          /\ converted_records' =
                 Append(converted_records,
                        [record |-> next_record,
                         converted |-> PyDict(Put(result, "measurements",
                                                [t |-> "ref", id |-> id])),
                         row |-> PyNone])
    /\ pc' = "idle"
    /\ UNCHANGED <<arg, ret, exc, entu_row, result, orchestrator_output, muis_row,
                 next_record, error_count>>

\* convert_row raised: the caller has no output for this call.
DropFailure ==
    /\ pc = "raised"
    /\ error_count' = error_count + 1
    /\ exc' = "none"
    /\ pc' = "idle"
    /\ UNCHANGED <<arg, ret, entu_row, result, orchestrator_output, muis_row,
                 next_record, converted_records, heap>>

\* orchestrator_to_muis_row(output) for any output kept; an exception
\* leaves the caller without a row.
MapAny ==
    /\ pc = "idle"
    /\ \E j \in 1..Len(converted_records) :
           LET o == Deref(converted_records[j].converted)
               outcome == orchestrator_to_muis_row(o)
           IN /\ converted_records[j].row = PyNone
              /\ orchestrator_output' = o
              /\ muis_row' = IF outcome.raised = "none" THEN outcome.value ELSE muis_row
              /\ converted_records' =
                     [converted_records EXCEPT ![j].row =
                          IF outcome.raised = "none" THEN PyDict(outcome.value)
                          ELSE PyStr(<<"!">>)]
    /\ UNCHANGED <<pc, arg, ret, exc, entu_row, result, next_record, error_count, heap>>

\* output["measurements"].append("x") on any output kept and not yet
\* changed.
MutateAny ==
    /\ pc = "idle"
    /\ \E j \in 1..Len(converted_records) :
           LET id == converted_records[j].converted.d["measurements"].id
           IN /\ \A i \in 1..Len(heap[id].l) : heap[id].l[i] # PyStr(<<"x">>)
              /\ heap' = [heap EXCEPT ![id] = PyList(Append(heap[id].l, PyStr(<<"x">>)))]
    /\ UNCHANGED <<pc, arg, ret, exc, entu_row, result, orchestrator_output, muis_row,
                 next_record, converted_records, error_count>>

NextCore ==
    \/ ConvertAny
    \/ Phase1 \/ Phase2 \/ Phase3 \/ Phase4 \/ Phase5 \/ Phase6
    \/ KeepOutput
    \/ DropFailure
    \/ MapAny
    \/ MutateAny

SpecCore == InitCore /\ [][NextCore]_vars

-----------------------------------------------------------------------------
(* Properties of parse_entu_code, under SpecCode.                          *)

\* The properties read a code position by position, not through the parser.
CodeShaped(s) ==
    /\ Len(s) = 10
    /\ \A i \in 1..10 : IF i = 7 THEN s[i] = "/" ELSE s[i] \in DigitChars

SeriesNumber(s) ==
    100000 * DigitVal(s[1]) + 10000 * DigitVal(s[2]) + 1000 * DigitVal(s[3])
    + 100 * DigitVal(s[4]) + 10 * DigitVal(s[5]) + DigitVal(s[6])

SubSeriesNumber(s) == 100 * DigitVal(s[8]) + 10 * DigitVal(s[9]) + DigitVal(s[10])

ZeroSubSeries(s) == CodeShaped(s) /\ SubSeq(s, 8, 10) = <<"0", "0", "0">>

\* C1: for a code NNNNNN/000 parse_entu_code reports trj as None, not 0,
\* and trs as the number of the first six digits.
\* The code returns trj = 0 (e.g. for "020082/000"), so this is violated.
ZeroSubSeriesIsNone ==
    (pc = "returned" /\ IsStr(arg) /\ ZeroSubSeries(arg.s))
        => (ret.trj = PyNone /\ ret.trs = PyInt(SeriesNumber(arg.s)))

HierarchyAcceptable ==
    pc = "returned"
        => /\ ret.acr.t = "str"
           /\ Len(ret.acr.s) \in 2..4
           /\ \A i \in 1..Len(ret.acr.s) :
                  ret.acr.s[i] \in {"A", "B", "C", "D", "E", "F", "G", "H", "I", "J", "K", "L",
                                    "M", "N", "O", "P", "Q", "R", "S", "T", "U", "V", "W", "X",
                                    "Y", "Z"}
           /\ ret.trt = PyStr(<<"_">>)
           /\ ret.trs.t = "int" /\ ret.trs.n >= 1
           /\ ret.trj = PyNone \/ (ret.trj.t = "int" /\ ret.trj.n >= 1)
           /\ MuisMuseaal(Put(ret, "nimetus", PyStr(<<"n">>))).raised = "none"

ParseRejectsAllButExact ==
    (pc # "call" /\ ~(IsStr(arg) /\ CodeShaped(arg.s)))
        => (pc = "raised" /\ exc = "ValueError" /\ ret = Unset)

\* C3, amended: every input that is not a string, or whose text without its
\* leading and trailing whitespace is not of the shape NNNNNN/NNN, fails
\* with ValueError and yields no result; a code of that shape with
\* whitespace around it is parsed like the code itself.
ParseRejectsAllElse ==
    /\ (pc # "call" /\ ~(IsStr(arg) /\ CodeShaped(strip(arg.s))))
           => (pc = "raised" /\ exc = "ValueError" /\ ret = Unset)
    /\ (pc # "call" /\ IsStr(arg) /\ CodeShaped(strip(arg.s)))
           => /\ pc = "returned"
              /\ ret.trs = PyInt(SeriesNumber(strip(arg.s)))
              /\ ret.trj = PyInt(SubSeriesNumber(strip(arg.s)))

\* C3's case: a code followed by one more character has been rejected.
RejectedTrailingCharacter ==
    /\ pc = "raised"
    /\ exc = "ValueError"
    /\ ret = Unset
    /\ IsStr(arg)
    /\ Len(arg.s) = 11
    /\ CodeShaped(SubSeq(arg.s, 1, 10))
    /\ arg.s[11] \notin Whitespace

-----------------------------------------------------------------------------
(* Properties of convert_row, under SpecRow.                               *)

\* A code convert_row does not parse: absent, None or empty, no string, or
\* text that is not NNNNNN/NNN once the whitespace around it is dropped.
CodeUnparsed(r) ==
    \/ "code" \notin DOMAIN r
    \/ ~IsStr(r.code)
    \/ ~CodeShaped(strip(r.code.s))

\* A record as read from the export: every field is text or None.
TextRecord(r) == \A k \in DOMAIN r : r[k].t \in {"str", "none"}

\* The keys phases 2 to 5 set.
ParsedKeys == {"measurements", "date", "donator", "autor", "material", "technique", "color"}

\* convert_row has returned (and its result may have been mapped since).
Returned == pc \in {"returned", "mapped"}

\* convert_row has not returned: an exception left it.
ConvertRowRaised == pc = "raised" /\ orchestrator_output = EmptyDict

CopiedKeys ==
    [asukoht |-> "asukoht", vastuvotuakt |-> "vastuv6tuakt", code_original |-> "code",
     year |-> "year", legend |-> "legend", public_legend |-> "public_legend"]

\* C5: the result of convert_row holds asukoht, vastuvotuakt (from the field
\* vastuv6tuakt), code_original (from code), year, legend and public_legend,
\* each the record's value, or "" when the record has no such field.
\* The code sets none of these keys, so this is violated.
ResultCopiesFeedbackFields ==
    Returned
        => \A k \in DOMAIN CopiedKeys :
               /\ k \in DOMAIN result
               /\ result[k] = Get(entu_row, CopiedKeys[k], PyStr(<<>>))

\* C6: convert_row raises for no record, whatever its fields hold.
\* A date, donator, autor, materials, techniques or colors value that is
\* not text raises (TypeError, AttributeError), so this is violated.
ConvertRowNeverRaises == ~ConvertRowRaised

\* The columns as a set.
ColumnSet == {MUIS_COLUMN_NAMES[i] : i \in 1..Len(MUIS_COLUMN_NAMES)}

\* The columns with their intermediate key, as spec and tests agree with
\* the code.
KeyOfColumn ==
    <<<<"Acr", "acr">>, <<"Trt", "trt">>, <<"Trs", "trs">>, <<"Trj", "trj">>,
      <<"Trl", "trl">>, <<"Kt", "kt">>, <<"Ks", "ks">>, <<"Kj", "kj">>,
      <<"Kl", "kl">>, <<"Üleandja", "donator">>, <<"Materjal 1", "material">>,
      <<"Tehnika 1", "technique">>, <<"Värvus", "color">>>>

\* What the measurement list holds for slot i under key k.
SlotValue(measurements, i, k) ==
    IF i <= Len(measurements.l) THEN measurements.l[i].d[k] ELSE PyNone

\* The values a map holds, with the components of its measurements.
ValuesOf(o) ==
    {o[k] : k \in DOMAIN o}
    \cup (IF "measurements" \in DOMAIN o /\ o.measurements.t = "list"
          THEN UNION {{o.measurements.l[i].d[k] : k \in DOMAIN o.measurements.l[i].d} :
                          i \in {j \in 1..Len(o.measurements.l) :
                                     o.measurements.l[j].t = "dict"}}
          ELSE {})

-----------------------------------------------------------------------------
(* Properties of orchestrator_to_muis_row, under SpecWriter.               *)

\* The number of columns of each group, in the order of the groups.
GroupSizes == <<3, 9, 4, 5, 12, 7, 6, 2, 2, 4, 2, 11, 11, 2, 4, 2, 2>>

\* The first column of each group.
GroupHeads ==
    <<"museaali_ID", "Acr", "Nimetus", "Vastuvõtu nr", "Parameeter 1",
      "Materjal 1", "Tehnika 1", "Olemus 1", "Viite tyyp", "Leiukontekst",
      "Seisund", "Sündmuse liik 1", "Sündmuse liik 2", "Avalik",
      "Teksti tyyp 1", "Nimetuse tyyp", "Numbri tyyp">>

RECURSIVE SumTo(_, _)
SumTo(sizes, n) == IF n = 0 THEN 0 ELSE sizes[n] + SumTo(sizes, n - 1)

\* C8: the column list has 91 columns: the seventeen groups in order, then
\* Dateering, Avalik legend (the 90th) and Mitteavaliku legend (the 91st);
\* every row orchestrator_to_muis_row returns has 91 entries.
\* The list has 88 columns and no extension column, so this is violated.
ColumnListHas91 ==
    /\ Len(MUIS_COLUMN_NAMES) = 91
    /\ \A g \in 1..Len(GroupSizes) :
           MUIS_COLUMN_NAMES[SumTo(GroupSizes, g - 1) + 1] = GroupHeads[g]
    /\ MUIS_COLUMN_NAMES[89] = "Dateering"
    /\ MUIS_COLUMN_NAMES[90] = "Avalik legend"
    /\ MUIS_COLUMN_NAMES[91] = "Mitteavaliku legend"
    /\ pc = "mapped" => Cardinality(DOMAIN muis_row) = 91

\* The value of a column of the returned row (no value when it has no such
\* column).
Column(c) == IF c \in DOMAIN muis_row THEN muis_row[c] ELSE Unset

\* The feedback columns with the intermediate key the claim gives each.
FeedbackColumns ==
    <<<<"Nimetus", "description">>, <<"Püsiasukoht", "asukoht">>,
      <<"Vastuvõtu nr", "vastuvotuakt">>, <<"Koguse registreerimise aeg", "date">>,
      <<"Alt number", "code_original">>, <<"Dateering", "year">>,
      <<"Avalik legend", "public_legend">>, <<"Mitteavaliku legend", "legend">>>>

\* C9: Nimetus holds description, Püsiasukoht asukoht, Vastuvõtu nr
\* vastuvotuakt, Koguse registreerimise aeg date, Alt number code_original,
\* Dateering year, Avalik legend public_legend and Mitteavaliku legend
\* legend; None when the map has no such key, "" passed through.
\* The code fills Nimetus from name and leaves the others None or out of
\* the row, so this is violated.
FeedbackColumnsSourced ==
    pc = "mapped"
        => \A j \in 1..Len(FeedbackColumns) :
               Column(FeedbackColumns[j][1])
                   = Get(orchestrator_output, FeedbackColumns[j][2], PyNone)

\* C10: orchestrator_to_muis_row raises for no map (empty, keys missing,
\* keys holding None) and returns a row over all the columns.
\* A map whose measurements are None raises TypeError, so this is violated.
MapperIsTotal ==
    /\ pc # "raised"
    /\ pc = "mapped" => DOMAIN muis_row = ColumnSet

-----------------------------------------------------------------------------
(* Properties of parse_dimensions, under SpecDimensions.                   *)

Dia(num, den) == Measurement(STR_labimoot, PyFloat(num, den))
Hgt(num, den) == Measurement(STR_korgus, PyFloat(num, den))
Wid(num, den) == Measurement(STR_laius, PyFloat(num, den))
Dep(num, den) == Measurement(STR_sugavus, PyFloat(num, den))

\* What each clause of DimensionClauses denotes, read by hand: the diameter
\* first, then height, width and depth.
ClauseMeaning ==
    <<<<Dia(50, 1)>>,
      <<Dia(5, 1)>>,
      <<Hgt(62, 1), Wid(70, 1)>>,
      <<Hgt(1, 1), Wid(2, 1), Dep(3, 1)>>,
      <<Hgt(4, 1), Wid(55, 10), Dep(6, 1)>>,
      <<Dia(0, 1)>>,
      <<Hgt(0, 1), Wid(0, 1)>>,
      <<>>,
      <<>>,
      <<>>,
      <<Dia(5, 1), Hgt(2, 1), Wid(3, 1)>>,
      <<Dia(5, 1), Hgt(2, 1), Wid(3, 1)>>,
      <<Dia(7, 1), Hgt(7, 1), Wid(8, 1)>>,
      <<>>>>

MeaningOf(clause) ==
    ClauseMeaning[CHOOSE i \in 1..Len(DimensionClauses) : DimensionClauses[i] = clause]

\* The measurements of all clauses of the string, in the order of the clauses.
RECURSIVE MeaningOfAll(_)
MeaningOfAll(clauses) ==
    IF clauses = <<>> THEN <<>>
    ELSE MeaningOf(Head(clauses)) \o MeaningOfAll(Tail(clauses))

Denoted(s) == MeaningOfAll(split(s, ";"))

IsPrefix(a, b) == Len(a) <= Len(b) /\ a = SubSeq(b, 1, Len(a))

\* C11: for a string of any number of clauses parse_dimensions raises
\* nothing and returns at most 4 measurements; when the clauses denote
\* four or more, exactly the first four are returned.
AtMostFourMeasurements ==
    (pc # "call" /\ IsStr(arg))
        => /\ pc = "returned"
           /\ Len(ret.l) <= 4
           /\ Len(Denoted(arg.s)) >= 4 => ret.l = SubSeq(Denoted(arg.s), 1, 4)

\* C11's case: "1x2x3;4x5.5x6" denotes six measurements and four are
\* returned, the last the height of the second clause.
FifthMeasurementDropped ==
    /\ pc = "returned"
    /\ arg = PyStr(<<"1", "x", "2", "x", "3", ";", "4", "x", "5", ".", "5", "x", "6">>)
    /\ Len(ret.l) = 4
    /\ ret.l[4] = Hgt(4, 1)

\* C12: the returned list is in the order of the clauses, and within a
\* clause the diameter is ahead of height, width and depth, in that order:
\* the list is the beginning of the clauses' measurements so ordered.
MeasurementsInOrder ==
    (pc = "returned" /\ IsStr(arg))
        => /\ IsPrefix(ret.l, Denoted(arg.s))
           /\ Len(ret.l) = Len(Denoted(arg.s)) \/ Len(ret.l) = 4

\* C12's case: "ø50;62x70" gives diameter 50, height 62, width 70.
DiameterHeightWidth ==
    /\ pc = "returned"
    /\ arg = PyStr(<<"ø", "5", "0", ";", "6", "2", "x", "7", "0">>)
    /\ ret = PyList(<<Dia(50, 1), Hgt(62, 1), Wid(70, 1)>>)

\* C13: parse_dimensions raises for no input; for None, "", blank text, a
\* value that is no string, and text none of whose clauses is a diameter or
\* HxW notation, it returns the empty list.
DimensionsEmptyNeverRaise ==
    pc # "call"
        => /\ pc = "returned"
           /\ exc = "none"
           /\ (~IsStr(arg) \/ Denoted(arg.s) = <<>>) => ret = PyList(<<>>)

\* C13's case: a number, truthy and no string, has given the empty list.
NumberGivesNoMeasurements ==
    /\ pc = "returned"
    /\ arg = PyInt(50)
    /\ ret = PyList(<<>>)

\* C14: every measurement returned has a parameter of läbimõõt, kõrgus,
\* laius, sügavus, the unit "mm" and a value greater than 0.
\* "ø0" gives a diameter of 0.0, so this is violated.
MeasurementsPositive ==
    pc = "returned"
        => \A i \in 1..Len(ret.l) :
               /\ ret.l[i].d.parameeter
                      \in {PyStr(STR_labimoot), PyStr(STR_korgus),
                           PyStr(STR_laius), PyStr(STR_sugavus)}
               /\ ret.l[i].d.yhik = PyStr(STR_mm)
               /\ ret.l[i].d.vaartus.t = "float"
               /\ ret.l[i].d.vaartus.num > 0

-----------------------------------------------------------------------------
(* Properties of convert_date, under SpecDate.                             *)

\* s is YYYY-MM-DD and names a day of the calendar (the property's own
\* reading, by position).
CalendarDate(s) ==
    /\ Len(s) = 10
    /\ \A i \in 1..10 : IF i \in {5, 8} THEN s[i] = "-" ELSE s[i] \in DigitChars
    /\ LET y == 1000 * DigitVal(s[1]) + 100 * DigitVal(s[2])
                + 10 * DigitVal(s[3]) + DigitVal(s[4])
           m == 10 * DigitVal(s[6]) + DigitVal(s[7])
           d == 10 * DigitVal(s[9]) + DigitVal(s[10])
           leap == y % 400 = 0 \/ (y % 4 = 0 /\ y % 100 # 0)
       IN /\ y >= 1
          /\ m >= 1 /\ m <= 12
          /\ d >= 1
          /\ d <= (CASE m = 2 -> IF leap THEN 29 ELSE 28
                     [] m \in {4, 6, 9, 11} -> 30
                     [] OTHER -> 31)

\* DD.MM.YYYY written with the characters of YYYY-MM-DD.
Rewritten(s) == <<s[9], s[10], ".", s[6], s[7], ".", s[1], s[2], s[3], s[4]>>

\* C15: for every valid YYYY-MM-DD date convert_date returns the same date
\* as DD.MM.YYYY, with two-digit day and month and four-digit year.
\* Where the C library does not pad %Y (glibc), a year below 1000 comes out
\* with fewer digits ("0999-12-31" gives "31.12.999"), so this is violated.
DateRewritten ==
    (pc # "call" /\ IsStr(arg) /\ CalendarDate(arg.s))
        => (pc = "returned" /\ ret = PyStr(Rewritten(arg.s)))

\* C16: convert_date raises for no input, and returns None for None, ""
\* and every input that is not a valid YYYY-MM-DD date.
\* A value that is no string raises TypeError, and a date followed by a
\* time is converted, so this is violated.
DateNoneOtherwise ==
    pc # "call"
        => /\ pc = "returned"
           /\ ~(IsStr(arg) /\ CalendarDate(arg.s)) => ret = PyNone

-----------------------------------------------------------------------------
(* Properties of classify_entity, under SpecClassify.                      *)

\* sub occurs in s (the property's own reading, by position).
Occurs(sub, s) ==
    \E i \in 0..(Len(s) - Len(sub)) : \A j \in 1..Len(sub) : s[i + j] = sub[j]

\* The organization keywords; the NGO marker with the space ahead of it.
OrganizationKeywords ==
    {<<"m", "u", "u", "s", "e", "u", "m">>,
     <<"m", "u", "s", "e", "u", "m">>,
     <<"i", "n", "s", "t", "i", "t", "u", "u", "t">>,
     <<"i", "n", "s", "t", "i", "t", "u", "t", "e">>,
     <<"f", "o", "n", "d">>,
     <<"a", "r", "h", "i", "i", "v">>,
     <<"a", "r", "c", "h", "i", "v", "e">>,
     <<"ü", "l", "i", "k", "o", "o", "l">>,
     <<"u", "n", "i", "v", "e", "r", "s", "i", "t", "y">>,
     <<" ", "m", "t", "ü">>}

\* The company-type abbreviations, each with the space ahead of it.
CompanyAbbreviations == {<<" ", "o", "ü">>, <<" ", "a", "s">>, <<" ", "s", "a">>}

\* The class the four rules give a name, the first that applies winning.
ClassByRules(name) ==
    LET low == lower(name)
    IN IF Occurs(<<",">>, name) THEN PyStr(<<"p", "e", "r", "s", "o", "n">>)
       ELSE IF \E kw \in OrganizationKeywords : Occurs(kw, low) THEN PyStr(<<"o", "r", "g", "a", "n", "i", "z", "a", "t", "i", "o", "n">>)
       ELSE IF \E ab \in CompanyAbbreviations :
                   \/ Len(low) >= Len(ab) /\ SubSeq(low, Len(low) - Len(ab) + 1, Len(low)) = ab
                   \/ Occurs(ab \o <<" ">>, low)
                   \/ Occurs(ab \o <<",">>, low)
       THEN PyStr(<<"o", "r", "g", "a", "n", "i", "z", "a", "t", "i", "o", "n">>)
       ELSE PyStr(<<"p", "e", "r", "s", "o", "n">>)

-----------------------------------------------------------------------------
(* Properties of map_person, under SpecPerson.                             *)

AllDigits(s) == s # <<>> /\ \A i \in 1..Len(s) : s[i] \in DigitChars

\* s without its spaces.
Unspaced(s) == SelectSeq(s, LAMBDA c : c # " ")

\* C18: map_person fails for no input, and returns None for empty input,
\* the input unchanged when it has a comma and is not all digits once its
\* spaces are removed, "[Person ID: <digits>]" when the input is all
\* digits, and the input unchanged otherwise.
\* A numeric ID given as a number raises AttributeError, and text with
\* whitespace around it is returned without it, so this is violated.
PersonMappedAsIs ==
    pc # "call"
        => /\ pc = "returned"
           /\ ret = (IF ~Truthy(arg) THEN PyNone
                     ELSE IF Occurs(<<",">>, arg.s) /\ ~AllDigits(Unspaced(arg.s)) THEN arg
                     ELSE IF AllDigits(arg.s)
                     THEN PyStr(<<"[", "P", "e", "r", "s", "o", "n", " ", "I", "D", ":", " ">>
                                \o arg.s \o <<"]">>)
                     ELSE arg)

-----------------------------------------------------------------------------
(* Properties of the vocabulary mappers, under SpecVocab.                  *)

VocabReturned == pc \in {"call map_material returned", "call map_technique returned",
                         "call map_color returned"}

VocabRaised == pc \in {"call map_material raised", "call map_technique raised",
                       "call map_color raised"}

\* The segments of a path between its slashes that are not empty.
Segments(s) == non_empty(split(s, "/"))

\* C20: map_material, map_technique and map_color raise for no input;
\* they return None for absent or empty input, the input itself when it has
\* no slash, and the last non-empty segment of a path.
\* A value that is no string raises AttributeError, and a term with
\* whitespace around it is returned without it, so this is violated.
VocabTermReturned ==
    /\ ~VocabRaised
    /\ VocabReturned
           => ret = (IF ~Truthy(arg) THEN PyNone
                     ELSE IF ~Occurs(<<"/">>, arg.s) THEN arg
                     ELSE IF Segments(arg.s) = <<>> THEN PyNone
                     ELSE PyStr(Segments(arg.s)[Len(Segments(arg.s))]))

\* C28: map_material is idempotent on its results: when map_material(x)
\* returns a term t, map_material(t) returns t, also for paths whose
\* segments hold whitespace.
\* Only the whole path is stripped, not its segments: "/ a" gives " a", and
\* map_material(" a") gives "a", so this is violated.
MaterialIdempotent ==
    pc = "call map_material returned" /\ ret # PyNone
        => map_material(ret) = Return(ret)

-----------------------------------------------------------------------------
(* Properties of parse_multiline_names, under SpecNames.                   *)

\* Where the lines of text begin: at its start and after every newline.
LineStarts(text) == {1} \cup {i + 1 : i \in {j \in 1..Len(text) : text[j] = "\n"}}

\* The last position of the line that begins at a; the carriage return of
\* a "\r\n" ending is part of the ending.
LineEnd(text, a) ==
    LET nl == IF \E j \in a..Len(text) : text[j] = "\n"
              THEN CHOOSE j \in a..Len(text) :
                       text[j] = "\n" /\ \A k \in a..(j - 1) : text[k] # "\n"
              ELSE Len(text) + 1
    IN IF nl - 1 >= a /\ nl <= Len(text) /\ text[nl - 1] = "\r" THEN nl - 2 ELSE nl - 1

\* The positions of the line at a that hold no whitespace.
Inked(text, a) == {i \in a..LineEnd(text, a) : text[i] \notin Whitespace}

NonBlankStarts(text) == {a \in LineStarts(text) : Inked(text, a) # {}}

Least(S) == CHOOSE x \in S : \A y \in S : x <= y

Greatest(S) == CHOOSE x \in S : \A y \in S : x >= y

\* C19: parse_multiline_names returns, in their order, exactly the lines
\* of the field (cut at newlines, "\r\n" counting as a newline) that are
\* not blank, each without the whitespace around it, and no returned name
\* is empty or whitespace only.
NamesAreTrimmedLines ==
    pc = "returned"
        => LET text == arg.s
               starts == NonBlankStarts(text)
               names == ret.l
           IN /\ Len(names) = Cardinality(starts)
              /\ \A a \in starts :
                     names[Cardinality({b \in starts : b <= a})]
                         = PyStr(SubSeq(text, Least(Inked(text, a)), Greatest(Inked(text, a))))
              /\ \A k \in 1..Len(names) :
                     \E i \in 1..Len(names[k].s) : names[k].s[i] \notin Whitespace

\* " a\r\n \na " gives ["a", "a"]: the blank line is dropped, the names trimmed.
TwoNamesAroundBlankLine ==
    /\ pc = "returned"
    /\ arg = PyStr(<<" ", "a", "\r", "\n", " ", "\n", "a", " ">>)
    /\ ret = PyList(<<PyStr(<<"a">>), PyStr(<<"a">>)>>)

-----------------------------------------------------------------------------
(* Properties of MuisMuseaal, under SpecMuseaal.                           *)

\* The value the record is constructed with under field f.
Given(f) == IF f \in DOMAIN arg.d THEN arg.d[f] ELSE PyNone

\* A text field is set: it holds text that is not empty.
Filled(v) == v # PyNone /\ v # PyStr(<<>>)

Accepted == pc = "returned"

Rejected == pc = "raised" /\ exc = "ValidationError"

\* Every field outside Fs and the required ones is unset.
OnlyGiven(Fs) ==
    \A f \in DOMAIN arg.d \ (Fs \cup {"acr", "trs", "nimetus"}) : arg.d[f] = PyNone

\* The pairs <<field, field it requires>> of event block n.
EventPairs(n) ==
    {<<"osaleja_" \o n, "osaleja_roll_" \o n>>,
     <<"toimumiskoha_tapsustus_kohanimi_" \o n, "toimumiskoha_tapsustus_selgitus_" \o n>>,
     <<"dateeringu_lopp_" \o n, "dateering_algus_" \o n>>}

\* The first field of the pair is set and the one it requires is not.
Broken(pair) == Filled(Given(pair[1])) /\ ~Filled(Given(pair[2]))

CountryFields(n) == {"riik_" \o n, "eesti_admin_yksus_" \o n, "kihelkond_" \o n}

EventFields ==
    UNION {{p[1], p[2]} : p \in EventPairs("1") \cup EventPairs("2")}
    \cup CountryFields("1") \cup CountryFields("2")

\* C21: in each event block, a participant without its role, a location
\* name without its explanation and a range end without its start fail the
\* construction, whatever the other block holds; a record whose event
\* blocks have no such pair (and that sets nothing else) is constructed.
EventPairsRequired ==
    pc # "call"
        => /\ \A n \in {"1", "2"} : \A p \in EventPairs(n) : Broken(p) => Rejected
           /\ (/\ OnlyGiven(EventFields)
               /\ \A n \in {"1", "2"} : \A p \in EventPairs(n) : ~Broken(p))
                  => Accepted

\* Block 2 has a participant without role, block 1 a parish: rejected.
ParticipantWithoutRoleRejected ==
    /\ Rejected
    /\ Given("osaleja_2") = PyStr(<<"x">>)
    /\ Given("osaleja_roll_2") = PyNone
    /\ Given("kihelkond_1") = PyStr(<<"x">>)

\* C22: in each event block, when the administrative unit or the parish is
\* set, the constructed record's country is "Eesti" whatever country was
\* given, and the country given is no cause of rejection; when neither is
\* set the country is as given.
CountryForcedToEesti ==
    /\ Accepted
           => \A n \in {"1", "2"} :
                  ret.d["riik_" \o n]
                      = (IF \/ Filled(Given("eesti_admin_yksus_" \o n))
                            \/ Filled(Given("kihelkond_" \o n))
                         THEN PyStr(<<"E", "e", "s", "t", "i">>)
                         ELSE Given("riik_" \o n))
    /\ pc # "call" /\ OnlyGiven(CountryFields("1") \cup CountryFields("2")) => Accepted

\* An administrative unit with the country "x": constructed, country "Eesti".
OtherCountryOverwritten ==
    /\ Accepted
    /\ Given("eesti_admin_yksus_1") = PyStr(<<"x">>)
    /\ Given("riik_1") = PyStr(<<"x">>)
    /\ ret.d["riik_1"] = PyStr(<<"E", "e", "s", "t", "i">>)

MeasurementFields ==
    UNION {{"parameeter_" \o n, "yhik_" \o n, "vaartus_" \o n} : n \in {"1", "2", "3", "4"}}

\* C23: in each measurement slot, a value without a parameter name and a
\* parameter name without a value fail the construction; a record whose
\* slots each hold both or neither (and that sets nothing else) is
\* constructed, with or without units.
\* A value of 0.0 counts as no value (it is falsy), so this is violated.
MeasurementPairsRequired ==
    pc # "call"
        => /\ \A n \in {"1", "2", "3", "4"} :
                  /\ Given("vaartus_" \o n) # PyNone /\ ~Filled(Given("parameeter_" \o n))
                         => Rejected
                  /\ Filled(Given("parameeter_" \o n)) /\ Given("vaartus_" \o n) = PyNone
                         => Rejected
           /\ (/\ OnlyGiven(MeasurementFields)
               /\ \A n \in {"1", "2", "3", "4"} :
                      Given("vaartus_" \o n) # PyNone <=> Filled(Given("parameeter_" \o n)))
                  => Accepted

\* The description pairs, the alternative name and the alternative number:
\* <<type, text>>.
TextPairs ==
    {<<"teksti_tyyp_1", "tekst_1">>, <<"teksti_tyyp_2", "tekst_2">>,
     <<"nimetuse_tyyp", "alt_nimetus">>, <<"numbri_tyyp", "alt_number">>}

\* C24: a record in which one of the description pairs, the alternative
\* name pair or the alternative number pair has exactly one member set
\* fails the construction; a record in which each of them has both or
\* neither (and that sets nothing else) is constructed.
TextPairsBothOrNeither ==
    pc # "call"
        => /\ \A p \in TextPairs :
                  Filled(Given(p[1])) # Filled(Given(p[2])) => Rejected
           /\ (/\ OnlyGiven(UNION {{p[1], p[2]} : p \in TextPairs})
               /\ \A p \in TextPairs : Filled(Given(p[1])) = Filled(Given(p[2])))
                  => Accepted

\* An alternative number without its type: rejected.
NumberWithoutTypeRejected ==
    /\ Rejected
    /\ Given("alt_number") = PyStr(<<"x">>)
    /\ Given("numbri_tyyp") = PyNone
    /\ OnlyGiven({"alt_number"})

\* The one-directional rules: <<field, field it requires>>.
OneWayPairs ==
    {<<"materjali_" \o n \o "_kommentaar", "materjal_" \o n>> : n \in {"1", "2", "3"}}
    \cup {<<"tehnika_" \o n \o "_kommentaar", "tehnika_" \o n>> : n \in {"1", "2", "3"}}
    \cup {<<"viite_vaartus", "viite_tyyp">>, <<"leiu_liik", "leiukontekst">>}

\* The condition is one of the two poor ones and no damage is described.
PoorWithoutDamage ==
    /\ Given("seisund") \in {PyStr(<<"h", "a", "l", "b">>),
                             PyStr(<<"v", "ä", "g", "a", " ", "h", "a", "l", "b">>)}
    /\ ~Filled(Given("kahjustused"))

\* C25: a material or technique comment without its name, a reference
\* value without its type, a find type without its context and a poor
\* condition without a damage description fail the construction; a record
\* with none of these (and that sets nothing else) is constructed, so the
\* reverse combinations are accepted.
OneWayRulesOneWay ==
    pc # "call"
        => /\ \A p \in OneWayPairs : Broken(p) => Rejected
           /\ PoorWithoutDamage => Rejected
           /\ (/\ OnlyGiven(UNION {{p[1], p[2]} : p \in OneWayPairs}
                            \cup {"seisund", "kahjustused"})
               /\ \A p \in OneWayPairs : ~Broken(p)
               /\ ~PoorWithoutDamage)
                  => Accepted

\* A reference type without a value, and a damage description: constructed.
TypeWithoutValueAccepted ==
    /\ Accepted
    /\ Given("viite_tyyp") = PyStr(<<"x">>)
    /\ Given("viite_vaartus") = PyNone
    /\ Given("kahjustused") = PyStr(<<"x">>)

-----------------------------------------------------------------------------
(* Properties of convert_collection, under SpecBatch.                      *)

\* Whether converting the record raises, read off the record: a date, a
\* person or a vocabulary path that is truthy and no string.
Fails(record) ==
    \E f \in {"date", "donator", "autor", "materials", "techniques", "colors"} :
        /\ f \in DOMAIN record.d
        /\ record.d[f].t \notin {"none", "str"}
        /\ record.d[f] # PyInt(0)

\* The positions among the first n records that fail, and that convert.
Failing(n) == {k \in 1..n : Fails(arg.l[k])}

Converting(n) == (1..n) \ Failing(n)

\* The number of positions of S below k.
Before(S, k) == Cardinality({j \in S : j < k})

\* The first n records have been attempted: the failing ones are counted,
\* the others are kept in input order (the kept record at position k of the
\* list echoes the k-th converting record's name, absent here, and code).
Attempted(n) ==
    /\ error_count = Cardinality(Failing(n))
    /\ Len(converted_records) = Cardinality(Converting(n))
    /\ \A k \in Converting(n) :
           LET kept == converted_records[Before(Converting(n), k) + 1].d
           IN /\ kept["donator_direct"] = Get(arg.l[k].d, "donator", PyStr(<<>>))
              /\ (kept["trs"] = PyNone) = (Get(arg.l[k].d, "code", PyNone)
                     # PyStr(<<"0", "2", "0", "0", "8", "2", "/", "0", "0", "0">>))
              /\ (kept["date"] = PyNone) = ("date" \notin DOMAIN arg.l[k].d)

\* A step hands the next record of the list to convert_row, or lets
\* convert_row work on the record it has, or moves on by one record after
\* convert_row returned or raised, or ends the call after the last record.
AttemptsInOrder ==
    \/ /\ pc = "loop" /\ pc' = "phase1"
       /\ next_record <= Len(arg.l)
       /\ entu_row' = arg.l[next_record].d
       /\ UNCHANGED <<next_record, converted_records, error_count, heap>>
    \/ /\ pc \notin {"loop", "returned", "raised", "done"}
       /\ pc' \notin {"loop", "done"}
       /\ UNCHANGED <<entu_row, next_record, converted_records, error_count, heap>>
    \/ /\ pc \in {"returned", "raised"} /\ pc' = "loop"
       /\ next_record' = next_record + 1
    \/ /\ pc = "loop" /\ pc' = "done"
       /\ next_record = Len(arg.l) + 1
       /\ UNCHANGED <<next_record, converted_records, error_count, heap>>

\* C26: in convert_collection a record that fails to convert never stops
\* the loop: every record of the list is attempted once, in input order;
\* a failing record is counted and skipped, a converting one is kept in
\* order; the call returns, and the success count plus the error count it
\* returns is the number of records.
FailureNeverStopsSiblings ==
    /\ [](/\ next_record \in 1..(Len(arg.l) + 1)
          /\ pc = "raised" => Fails(arg.l[next_record])
          /\ pc = "returned" => ~Fails(arg.l[next_record])
          /\ Attempted(next_record - 1)
          /\ pc = "done" =>
                 /\ next_record = Len(arg.l) + 1
                 /\ ret.l[2] = PyInt(Len(converted_records))
                 /\ ret.l[3] = PyInt(error_count)
                 /\ ret.l[2].n + ret.l[3].n = Len(arg.l))
    /\ [][AttemptsInOrder]_vars
    /\ <>(pc = "done")

\* A list whose second record failed and whose first and third were kept.
ConvertedAroundAFailure ==
    /\ pc = "done"
    /\ Len(arg.l) = 3
    /\ Failing(3) = {2}
    /\ error_count = 1
    /\ Len(converted_records) = 2
    /\ ret.l[2] = PyInt(2)
    /\ ret.l[3] = PyInt(1)
    /\ converted_records[1] # converted_records[2]

-----------------------------------------------------------------------------
(* Properties of the translation core across records, under SpecCore.      *)

\* What the caller reads in the j-th output it keeps.
OutputValue(j) == Deref(converted_records[j].converted)

\* The caller has not changed the j-th output's measurement list.
Untouched(j) ==
    \A i \in 1..Len(OutputValue(j)["measurements"].l) :
        OutputValue(j)["measurements"].l[i] # PyStr(<<"x">>)

SameRecord(i, j) == arg.l[converted_records[i].record] = arg.l[converted_records[j].record]

\* The outputs of equal records are equal, whenever and in whatever order
\* they were made, as long as the caller has changed neither; so are their
\* rows.  While convert_row works, the record it was given is the batch's.
OutputsDependOnRecordOnly ==
    /\ \A i, j \in 1..Len(converted_records) :
           SameRecord(i, j) /\ Untouched(i) /\ Untouched(j) =>
               /\ OutputValue(i) = OutputValue(j)
               /\ converted_records[i].row # PyNone /\ converted_records[j].row # PyNone
                      => converted_records[i].row = converted_records[j].row
    /\ pc \notin {"idle"} => entu_row = arg.l[next_record].d

\* A step changes no record of the batch and at most one output the caller
\* keeps, and that one only by the caller's own change of it; mapping an
\* output to a row changes no output.
OnlyOwnChange ==
    /\ arg' = arg
    /\ \A j \in 1..Len(converted_records) :
           \/ OutputValue(j)' = OutputValue(j)
           \/ /\ OutputValue(j)' =
                     Put(OutputValue(j), "measurements",
                         PyList(Append(OutputValue(j)["measurements"].l, PyStr(<<"x">>))))
              /\ \A i \in 1..Len(converted_records) :
                     i # j => OutputValue(i)' = OutputValue(i)
              /\ muis_row' = muis_row

\* C27: convert_row and orchestrator_to_muis_row never change the record
\* they are given, and an output depends on its record only: converting
\* the records of a batch in any order, or one of them again, gives each
\* record the same output, and changing one output's measurement list
\* changes no other output.
OutputsAreIndependent == []OutputsDependOnRecordOnly /\ [][OnlyOwnChange]_vars

\* The same record converted twice, the first output changed by the caller
\* and mapped, the second still as convert_row returned it.
SecondOutputKeptItsList ==
    /\ Len(converted_records) = 2
    /\ converted_records[1].record = converted_records[2].record
    /\ ~Untouched(1)
    /\ Untouched(2)
    /\ Len(OutputValue(2)["measurements"].l) = 2
    /\ Len(OutputValue(1)["measurements"].l) = 3
    /\ converted_records[2].row # PyNone

-----------------------------------------------------------------------------
(* Properties of split_large_collection, under SpecSplit.                  *)

\* The chunks of a list of chunks, one after the other.
RECURSIVE Concatenated(_)
Concatenated(chunks) ==
    IF chunks = <<>> THEN <<>> ELSE chunks[1].l \o Concatenated(Tail(chunks))

\* C30: for every record list and every integer max_rows, 0 and negative
\* ones included, split_large_collection returns, the chunks it returns make
\* up the input list in order, and when the list is longer than max_rows
\* every chunk holds at least one and at most max_rows records.
\* For max_rows = 0 and a list that is not empty range() raises ValueError,
\* and for a negative max_rows no chunk is returned, so this is violated.
SplitKeepsEveryRecord ==
    pc # "call"
        => /\ pc = "returned"
           /\ Concatenated(ret.l) = arg.l[1].l
           /\ Len(arg.l[1].l) > arg.l[2].n
                  => \A k \in 1..Len(ret.l) : Len(ret.l[k].l) \in 1..arg.l[2].n

=============================================================================
